---- MODULE Spec2Model ----
(***************************************************************************)
(* SantAI: the Gift-expert conversation flow (src/Gift-expert), the root   *)
(* conversation flow (src/conversation_flow.py) and the peer-agent         *)
(* handshake (src/Gift-expert/friend_interface.py, agent.py).              *)
(*                                                                         *)
(* Python values: None is NULL, text is a TLA+ string (a sequence of       *)
(* characters for Len, SubSeq and \o), budget integers are written as      *)
(* their decimal numerals, a dict keyed by user id is a function whose     *)
(* DOMAIN is the set of keys.  The completion service, the product search  *)
(* and the users are the environment: their outputs are inputs of the      *)
(* actions, drawn from the small sets defined below.                       *)
(***************************************************************************)
EXTENDS Integers, Sequences, FiniteSets, TLC

VARIABLES
    global_params,      \* Gift-expert/global_parameters.py: the shared slot store
    user_contexts,      \* global_memory._user_contexts: user id -> ConversationContext
    last_reply,         \* the text the handler sent last: [to, kind, arg]
    http_request,       \* product-search request issued by the last step, or NoRequest
    last_input,         \* history: what the environment handed to the last step
    update_intent,      \* history: users whose 'update preferences' intent was processed
    solo,               \* the run in which only solo.user's messages are handled
    pending_responses,  \* friend_interface: friend -> response type -> stored reply
    original_user,      \* friend_interface.original_user
    handshake,          \* user -> where that user's communicate_with_friend stands
    in_flight,          \* questions sent to friend agents and not answered yet
    rounds,             \* history: how many handshake rounds were started
    friend_search,      \* history: the last gift search started for a friend
    pushed,             \* history: the last search result sent to original_user
    budget,             \* the budget text handed to the budget parsing
    parsed,             \* what the budget parsing made of it: [op, range]
    api_key,            \* shopping_agent_interface.api_key is set (OPENWEB_NINJA_API_KEY)
    search_preferences, \* the UserPreferences handed to the product search
    searched,           \* what the product search returned: [op, success, errors]
    elapsed,            \* question -> the 0.5 s sleeps its wait has taken since start_time
    payment_requests,   \* payment_service.payment_requests: payment id -> PaymentRequest
    processed,          \* the last process_payment call: [payment_id, result]
    lock,               \* global_memory._lock: the handler that holds it, or NULL
    pc,                 \* handler -> where it stands in process_user_input, and its input
    chat                \* the ChatMessage being handled: [sender, content, sent]


----------------------------------------------------------------------------
(* Python values and string functions *)

NULL == "None"
EMPTY == ""
ZERO == "0"

\* bool(v) of a slot value: None, "" and 0 are falsy
Truthy(v) == v \notin {NULL, EMPTY, ZERO}

\* bool(v) of a text or None
TruthyText(v) == v \notin {NULL, EMPTY}

Digits == {"0", "1", "2", "3", "4", "5", "6", "7", "8", "9"}

Char(s, i) == SubSeq(s, i, i)

\* str.isdigit()
isdigit(s) == Len(s) > 0 /\ \A i \in 1..Len(s) : Char(s, i) \in Digits

DigitVal(c) ==
    CASE c = "0" -> 0 [] c = "1" -> 1 [] c = "2" -> 2 [] c = "3" -> 3
      [] c = "4" -> 4 [] c = "5" -> 5 [] c = "6" -> 6 [] c = "7" -> 7
      [] c = "8" -> 8 [] c = "9" -> 9

\* int(s) of a string of decimal digits
RECURSIVE int(_)
int(s) ==
    IF Len(s) = 0 THEN 0
    ELSE 10 * int(SubSeq(s, 1, Len(s) - 1)) + DigitVal(Char(s, Len(s)))

DigitChar(d) ==
    CASE d = 0 -> "0" [] d = 1 -> "1" [] d = 2 -> "2" [] d = 3 -> "3"
      [] d = 4 -> "4" [] d = 5 -> "5" [] d = 6 -> "6" [] d = 7 -> "7"
      [] d = 8 -> "8" [] d = 9 -> "9"

\* str(n) of a natural number
RECURSIVE str(_)
str(n) == IF n < 10 THEN DigitChar(n) ELSE str(n \div 10) \o DigitChar(n % 10)

Lowercase ==
    [c \in {"A", "B", "C", "D", "E", "F", "G", "H", "I", "J", "K", "L", "M",
            "N", "O", "P", "Q", "R", "S", "T", "U", "V", "W", "X", "Y", "Z"} |->
        CASE c = "A" -> "a" [] c = "B" -> "b" [] c = "C" -> "c" [] c = "D" -> "d"
          [] c = "E" -> "e" [] c = "F" -> "f" [] c = "G" -> "g" [] c = "H" -> "h"
          [] c = "I" -> "i" [] c = "J" -> "j" [] c = "K" -> "k" [] c = "L" -> "l"
          [] c = "M" -> "m" [] c = "N" -> "n" [] c = "O" -> "o" [] c = "P" -> "p"
          [] c = "Q" -> "q" [] c = "R" -> "r" [] c = "S" -> "s" [] c = "T" -> "t"
          [] c = "U" -> "u" [] c = "V" -> "v" [] c = "W" -> "w" [] c = "X" -> "x"
          [] c = "Y" -> "y" [] c = "Z" -> "z"]

LowerChar(c) == IF c \in DOMAIN Lowercase THEN Lowercase[c] ELSE c

\* str.lower()
RECURSIVE lower(_)
lower(s) ==
    IF Len(s) = 0 THEN ""
    ELSE IF Len(s) = 1 THEN LowerChar(s)
    ELSE lower(SubSeq(s, 1, Len(s) \div 2)) \o lower(SubSeq(s, Len(s) \div 2 + 1, Len(s)))

\* sub in s
contains(sub, s) ==
    \E i \in 1..(Len(s) - Len(sub) + 1) : SubSeq(s, i, i + Len(sub) - 1) = sub

\* seq[:n]
Take(seq, n) == SubSeq(seq, 1, IF Len(seq) < n THEN Len(seq) ELSE n)

\* x in list
InList(x, seq) == \E i \in 1..Len(seq) : seq[i] = x

----------------------------------------------------------------------------
(* Gift-expert/global_parameters.py *)

SlotNames == {"occasion", "recipient", "preferences", "budget_min", "budget_max"}

GlobalParameters ==
    [occasion |-> NULL, recipient |-> NULL, preferences |-> NULL,
     budget_min |-> NULL, budget_max |-> NULL]

get_missing_info(p) ==
    (IF ~Truthy(p.occasion) THEN <<"occasion">> ELSE <<>>)
    \o (IF ~Truthy(p.recipient) THEN <<"recipient">> ELSE <<>>)
    \o (IF ~Truthy(p.preferences) THEN <<"preferences">> ELSE <<>>)
    \o (IF ~Truthy(p.budget_min) /\ ~Truthy(p.budget_max)
        THEN <<"budget_min", "budget_max">> ELSE <<>>)

is_complete(p) ==
    /\ p.occasion # NULL
    /\ p.recipient # NULL
    /\ p.preferences # NULL
    /\ (p.budget_min # NULL \/ p.budget_max # NULL)

reset_global_parameters == GlobalParameters

----------------------------------------------------------------------------
(* Gift-expert/llm_service.py: the extraction service *)

Slots(r) == [k \in SlotNames |-> r[k]]

\* _validate_and_update_parameters: extracted is the parsed completion output,
\* current the snapshot taken before the completion call, gp the slot store
_validate_and_update_parameters(extracted, current, gp) ==
    LET valid(k) ==
            IF extracted[k] # NULL /\ ~(current[k] # NULL /\ current[k] # extracted[k])
            THEN extracted[k] ELSE NULL
        written(k) == valid(k) # NULL /\ gp[k] = NULL
    IN  [global_params |-> [k \in SlotNames |-> IF written(k) THEN valid(k) ELSE gp[k]],
         updated_params |-> [k \in SlotNames |-> IF written(k) THEN valid(k) ELSE current[k]]]

\* get_occasion_and_preferences.  llm is what the completion call produced:
\*   path "parsed": json.loads succeeded on the first try (lines 131-149)
\*   path "fixed":  json.loads succeeded after the quote replacement (lines 150-158)
\*   path "failed": the call raised or the text stayed unparsable; both
\*                  handlers call _fallback_extraction(user_input, current_context)
\*                  with the undefined name current_context (lines 159-166)
get_occasion_and_preferences(llm, gp) ==
    LET current_params == Slots(gp)
        v == _validate_and_update_parameters(llm.result, current_params, gp)
    IN  CASE llm.path = "parsed" ->
               [raised |-> FALSE,
                global_params |-> v.global_params,
                info |-> v.updated_params,
                missing_info |-> get_missing_info(v.global_params)]
          [] llm.path = "fixed" ->
               [raised |-> FALSE,
                global_params |-> gp,
                info |-> Slots(llm.result),
                missing_info |-> llm.missing_info]
          [] OTHER ->
               [raised |-> TRUE,
                global_params |-> gp,
                info |-> current_params,
                missing_info |-> <<>>]

FallbackCategories ==
    <<"Electronics", "Books", "Jewelry", "Home Decor",
      "Sports Equipment", "Fashion Accessories", "Kitchen Gadgets", "Art & Crafts">>

FallbackAdditionalCategories ==
    <<"Experiences", "Gourmet Food", "Pet Supplies", "Garden Tools",
      "Travel Accessories", "Health & Wellness", "Office Supplies", "Toys & Games">>

\* get_gift_categories: the parsed list, or the fallback list on any failure
get_gift_categories(llm) == IF llm.failed THEN FallbackCategories ELSE llm.list

\* get_additional_categories: the parsed value unchecked, or the fallback list
get_additional_categories(llm) ==
    IF llm.failed THEN FallbackAdditionalCategories ELSE llm.list

\* process_user_selection: the parsed object unchecked, or 'unclear' on any failure
UnclearSelection ==
    [selected_option |-> NULL, wants_more_options |-> FALSE,
     updated_preferences |-> FALSE, action |-> "unclear", has_action |-> TRUE]

process_user_selection(llm) == IF llm.failed THEN UnclearSelection ELSE llm.result

----------------------------------------------------------------------------
(* models.py: ConversationContext and the Gift-expert UserPreferences *)

UserPreferences ==
    [occasion |-> NULL, recipient |-> NULL, preferences |-> NULL,
     budget_min |-> NULL, budget_max |-> NULL, category |-> NULL]

\* UserPreferences.is_complete of the Gift-expert flow
preferences_is_complete(p) ==
    /\ p.occasion # NULL
    /\ p.recipient # NULL
    /\ p.preferences # NULL
    /\ (p.budget_min # NULL \/ p.budget_max # NULL)

ConversationContext(prefs) ==
    [state |-> "INITIAL", preferences |-> prefs, available_categories |-> <<>>,
     current_recommendations |-> <<>>, all_gifts |-> <<>>, selected_gift |-> NULL]

Reply(kind, arg) == [kind |-> kind, arg |-> arg]

\* what a handler leaves behind: the context, the slot store, the reply text,
\* the search request it issued, and whether it raised instead of returning
Outcome(ctx, gp, reply, request, raised) ==
    [ctx |-> ctx, global_params |-> gp, reply |-> reply, request |-> request,
     raised |-> raised]

NoRequest == [issued |-> FALSE, query |-> <<>>, min_price |-> NULL, max_price |-> NULL]

Raised(ctx, gp) == Outcome(ctx, gp, Reply("raised", <<>>), NoRequest, TRUE)

----------------------------------------------------------------------------
(* Gift-expert/conversation_flow.py: collecting the slots *)

\* the learned_info list of the two collecting handlers
learned_info(info) ==
    (IF Truthy(info.occasion) THEN <<"occasion">> ELSE <<>>)
    \o (IF Truthy(info.recipient) THEN <<"recipient">> ELSE <<>>)
    \o (IF Truthy(info.preferences) THEN <<"preferences">> ELSE <<>>)
    \o (IF Truthy(info.budget_min) \/ Truthy(info.budget_max) THEN <<"budget">> ELSE <<>>)

\* _acknowledge_learned_info: the acknowledgments it collects.  The budget
\* branch tests "budget_min"/"budget_max" in learned_info, which holds "budget".
acknowledgments(learned, info) ==
    (IF InList("occasion", learned) /\ Truthy(info.occasion) /\ lower(info.occasion) # "general"
     THEN <<"occasion">> ELSE <<>>)
    \o (IF InList("recipient", learned) THEN <<"recipient">> ELSE <<>>)
    \o (IF InList("preferences", learned) THEN <<"preferences">> ELSE <<>>)
    \o (IF InList("budget_min", learned) \/ InList("budget_max", learned)
        THEN <<"budget">> ELSE <<>>)

\* _acknowledge_learned_info ends in acknowledgments[0] when the list is empty
acknowledge_raises(learned, info) == Len(acknowledgments(learned, info)) = 0

\* _ask_for_missing_info: the questions it builds, in order
questions(missing_info) ==
    (IF InList("occasion", missing_info) THEN <<"occasion">> ELSE <<>>)
    \o (IF InList("recipient", missing_info) THEN <<"recipient">> ELSE <<>>)
    \o (IF InList("preferences", missing_info) THEN <<"preferences">> ELSE <<>>)
    \o (IF InList("budget_min", missing_info) \/ InList("budget_max", missing_info)
        THEN <<"budget">> ELSE <<>>)

\* the reply of _ask_for_missing_info: all questions for 2 or more missing
\* names, questions[0] for exactly one, a generic request for none
_ask_for_missing_info(missing_info) ==
    LET q == questions(missing_info)
        n == Len(missing_info)
    IN  IF n >= 2 THEN Reply("ask_missing", q)
        ELSE IF n = 1 THEN Reply("ask_missing", <<q[1]>>)
        ELSE Reply("ask_more", <<>>)

ask_raises(missing_info) == Len(missing_info) = 1 /\ Len(questions(missing_info)) = 0

\* enumerate(categories, start): the numbered lines of a category display
enumerate(categories, start) ==
    [i \in 1..Len(categories) |-> [number |-> start + i - 1, category |-> categories[i]]]

\* _show_category_options
_show_category_options(ctx, gp, cats) ==
    LET categories == get_gift_categories(cats)
    IN  Outcome([ctx EXCEPT !.available_categories = categories], gp,
                Reply("categories", enumerate(categories, 1)), NoRequest, FALSE)

\* the five assignments context.preferences.<slot> = extracted_info.get(<slot>)
store_extracted(ctx, info) ==
    [ctx EXCEPT !.preferences =
        [k \in DOMAIN ctx.preferences |->
            IF k \in SlotNames THEN info[k] ELSE ctx.preferences[k]]]

\* _handle_initial_input; e is what its call of get_occasion_and_preferences
\* returned, cats the completion service's answer to get_gift_categories
_handle_initial_input(ctx, gp, e, cats) ==
    LET ctx1 == store_extracted(ctx, e.info)
        learned == learned_info(e.info)
    IN  IF e.raised THEN Raised(ctx, gp)
        ELSE IF Len(e.missing_info) = 0
        THEN _show_category_options([ctx1 EXCEPT !.state = "SELECTING_CATEGORY"],
                                    e.global_params, cats)
        ELSE IF Len(learned) > 0 /\ acknowledge_raises(learned, e.info)
        THEN Raised(ctx1, e.global_params)
        ELSE IF ask_raises(e.missing_info)
        THEN Raised([ctx1 EXCEPT !.state = "COLLECTING_PREFERENCES"], e.global_params)
        ELSE Outcome([ctx1 EXCEPT !.state = "COLLECTING_PREFERENCES"], e.global_params,
                     _ask_for_missing_info(e.missing_info), NoRequest, FALSE)

\* _handle_preferences_collection, with e and cats as above
_handle_preferences_collection(ctx, gp, e, cats) ==
    LET ctx1 == store_extracted(ctx, e.info)
        learned == learned_info(e.info)
    IN  IF e.raised THEN Raised(ctx, gp)
        ELSE IF Len(learned) > 0 /\ acknowledge_raises(learned, e.info)
        THEN Raised(ctx1, e.global_params)
        ELSE IF preferences_is_complete(ctx1.preferences)
        THEN _show_category_options([ctx1 EXCEPT !.state = "SELECTING_CATEGORY"],
                                    e.global_params, cats)
        ELSE IF ask_raises(e.missing_info)
        THEN Raised(ctx1, e.global_params)
        ELSE Outcome(ctx1, e.global_params,
                     _ask_for_missing_info(e.missing_info), NoRequest, FALSE)

----------------------------------------------------------------------------
(* Gift-expert/shopping_agent_interface.py *)

validate_requirements(p) ==
    (IF ~Truthy(p.occasion) THEN <<"occasion">> ELSE <<>>)
    \o (IF ~Truthy(p.recipient) THEN <<"recipient">> ELSE <<>>)
    \o (IF ~Truthy(p.preferences) THEN <<"preferences">> ELSE <<>>)
    \o (IF ~Truthy(p.budget_min) /\ ~Truthy(p.budget_max)
        THEN <<"budget_min", "budget_max">> ELSE <<>>)

recipient_terms(r) ==
    CASE r \in {"mother", "mom", "mothers"} -> "for mom"
      [] r \in {"father", "dad", "fathers"} -> "for dad"
      [] r \in {"girlfriend", "boyfriend", "wife", "husband", "friend", "sister", "brother"}
            -> "for " \o r
      [] OTHER -> NULL

occasion_terms(o) ==
    CASE o \in {"birthday", "anniversary", "wedding", "holiday", "christmas",
                "valentine", "graduation", "mothers day", "fathers day"} -> o \o " gift"
      [] OTHER -> NULL

\* str.strip() for blanks
RECURSIVE strip(_)
strip(s) ==
    IF Len(s) > 0 /\ Char(s, 1) = " " THEN strip(SubSeq(s, 2, Len(s)))
    ELSE IF Len(s) > 0 /\ Char(s, Len(s)) = " " THEN strip(SubSeq(s, 1, Len(s) - 1))
    ELSE s

\* str.split(',')
RECURSIVE split_comma(_)
split_comma(s) ==
    IF \E i \in 1..Len(s) : Char(s, i) = ","
    THEN LET i == CHOOSE j \in 1..Len(s) :
                    Char(s, j) = "," /\ \A k \in 1..(j - 1) : Char(s, k) # ","
         IN  <<SubSeq(s, 1, i - 1)>> \o split_comma(SubSeq(s, i + 1, Len(s)))
    ELSE <<s>>

\* _build_search_query: the query parts, joined by blanks in the source
_build_search_query(p) ==
    LET prefs == Take(split_comma(p.preferences), 3)
    IN  (IF Truthy(p.category) THEN <<p.category>> ELSE <<>>)
        \o (IF Truthy(p.recipient)
            THEN (IF recipient_terms(lower(p.recipient)) # NULL
                  THEN <<recipient_terms(lower(p.recipient))>>
                  ELSE <<"for " \o p.recipient>>)
            ELSE <<>>)
        \o (IF Truthy(p.occasion)
            THEN (IF occasion_terms(lower(p.occasion)) # NULL
                  THEN <<occasion_terms(lower(p.occasion))>>
                  ELSE <<p.occasion \o " gift">>)
            ELSE <<>>)
        \o (IF Truthy(p.preferences)
            THEN [i \in 1..Len(prefs) |-> strip(prefs[i])]
            ELSE <<>>)

\* _search_amazon_products: the request sent to the search endpoint
search_request(p) ==
    [issued |-> TRUE, query |-> _build_search_query(p),
     min_price |-> p.budget_min, max_price |-> p.budget_max]

\* a search that does not validate the preferences it is handed
call_shopping_agent_unvalidated(p, products) ==
    IF ~api_key
    THEN [gift_items |-> <<>>, success |-> FALSE, errors |-> <<"API key not configured">>,
          request |-> NoRequest]
    ELSE [gift_items |-> products, success |-> TRUE, errors |-> <<>>,
          request |-> search_request(p)]

\* call_shopping_agent: (gift_items, success, errors) and the request sent; products is what the
\* search endpoint answered (an empty list on any HTTP failure)
call_shopping_agent(p, products) ==
    IF ~api_key
    THEN [gift_items |-> <<>>, success |-> FALSE, errors |-> <<"API key not configured">>,
          request |-> NoRequest]
    ELSE IF Len(validate_requirements(p)) > 0
    THEN [gift_items |-> <<>>, success |-> FALSE, errors |-> validate_requirements(p),
          request |-> NoRequest]
    ELSE [gift_items |-> products, success |-> TRUE, errors |-> <<>>,
          request |-> search_request(p)]

----------------------------------------------------------------------------
(* Gift-expert/conversation_flow.py: category selection *)

Synonyms ==
    << <<"tech", "Electronics">>, <<"electronic", "Electronics">>,
       <<"gadget", "Electronics">>, <<"book", "Books">>, <<"reading", "Books">>,
       <<"jewel", "Jewelry">>, <<"jewellery", "Jewelry">>, <<"ring", "Jewelry">>,
       <<"necklace", "Jewelry">>, <<"home", "Home Decor">>, <<"decor", "Home Decor">>,
       <<"decoration", "Home Decor">>, <<"sport", "Sports Equipment">>,
       <<"fitness", "Sports Equipment">>, <<"exercise", "Sports Equipment">>,
       <<"fashion", "Fashion Accessories">>, <<"clothes", "Fashion Accessories">>,
       <<"clothing", "Fashion Accessories">>, <<"kitchen", "Kitchen Gadgets">>,
       <<"cooking", "Kitchen Gadgets">>, <<"art", "Art & Crafts">>,
       <<"craft", "Art & Crafts">>, <<"creative", "Art & Crafts">> >>

\* the first index of seq that satisfies P, or 0
First(seq, P(_)) ==
    LET hits == {i \in 1..Len(seq) : P(seq[i])}
    IN  IF hits = {} THEN 0 ELSE CHOOSE i \in hits : \A j \in hits : i <= j

\* a synonym search that does not look at the offered list
synonym_of_any_list(user_input, available_categories) ==
    LET u == lower(user_input)
        Syn(pr) == contains(pr[1], u)
        j == First(Synonyms, Syn)
    IN  IF j > 0 THEN Synonyms[j][2] ELSE NULL

_find_close_category_match(user_input, available_categories) ==
    LET u == lower(user_input)
        Sub(c) == LET category_lower == lower(c)
                  IN  contains(u, category_lower) \/ contains(category_lower, u)
        Syn(pr) == contains(pr[1], u) /\ InList(pr[2], available_categories)
        i == First(available_categories, Sub)
        j == First(Synonyms, Syn)
    IN  IF i > 0 THEN available_categories[i]
        ELSE IF j > 0 THEN Synonyms[j][2]
        ELSE NULL

\* _call_shopping_agent of the Gift-expert flow
_call_shopping_agent(ctx, gp, products) ==
    LET missing == validate_requirements(ctx.preferences)
        answer(r) ==
            IF r.success /\ Len(r.gift_items) > 0
            THEN Outcome(ctx, gp, Reply("products", Take(r.gift_items, 5)), r.request, FALSE)
            ELSE Outcome(ctx, gp, Reply("no_products", <<>>), r.request, FALSE)
    IN  IF Len(missing) > 0
        THEN Outcome(ctx, gp, Reply("missing_requirements", missing), NoRequest, FALSE)
        ELSE answer(call_shopping_agent(ctx.preferences, products))

\* _show_additional_categories
_show_additional_categories(ctx, gp, more) ==
    LET additional == get_additional_categories(more)
        extended == ctx.available_categories \o additional
        start_index == Len(extended) - Len(additional) + 1
    IN  Outcome([ctx EXCEPT !.available_categories = extended], gp,
                Reply("more_categories", enumerate(additional, start_index)),
                NoRequest, FALSE)

number_index_off_by_one(selected) == int(selected)

\* index = int(selected) - 1
number_index(selected) == int(selected) - 1

\* a range check without its lower bound
index_below_len(index, categories) == index < Len(categories)

\* 0 <= index < len(context.available_categories)
index_in_range(index, categories) == 0 <= index /\ index < Len(categories)

\* available_categories[index]: a negative index counts from the end
item(categories, index) ==
    IF index >= 0 THEN categories[index + 1] ELSE categories[Len(categories) + index + 1]

\* _handle_category_selection.  r is what its call of process_user_selection
\* returned, pick the index random.choice draws, more the answer to
\* get_additional_categories, products the search result.  The four selecting
\* branches end in the same three statements: they set the category and call
\* _call_shopping_agent.
_handle_category_selection(ctx, gp, r, pick, more, products) ==
    LET cats == ctx.available_categories
        selected == r.selected_option
        index == number_index(selected)
        category ==
            IF selected = "surprise me" THEN cats[pick]
            ELSE IF InList(selected, cats) THEN selected
            ELSE IF isdigit(selected)
            THEN (IF index_in_range(index, cats) THEN item(cats, index) ELSE NULL)
            ELSE _find_close_category_match(selected, cats)
    IN  IF ~r.has_action THEN Raised(ctx, gp)
        ELSE IF r.action = "select" /\ TruthyText(selected)
        THEN IF selected = "surprise me" /\ Len(cats) = 0 THEN Raised(ctx, gp)
             ELSE IF category # NULL
             THEN _call_shopping_agent([ctx EXCEPT !.preferences.category = category],
                                       gp, products)
             ELSE IF isdigit(selected)
             THEN Outcome(ctx, gp, Reply("invalid_number", <<str(Len(cats))>>),
                          NoRequest, FALSE)
             ELSE Outcome(ctx, gp, Reply("not_understood", <<>>), NoRequest, FALSE)
        ELSE IF r.wants_more_options THEN _show_additional_categories(ctx, gp, more)
        ELSE IF r.updated_preferences
        THEN Outcome([ctx EXCEPT !.state = "COLLECTING_PREFERENCES"], gp,
                     Reply("update_preferences", <<>>), NoRequest, FALSE)
        ELSE Outcome(ctx, gp, Reply("unclear", <<>>), NoRequest, FALSE)

----------------------------------------------------------------------------
(* conversation_flow.py (same text in both flows): recommendation selection *)

GiftRecommendation(gift, rank) == [gift |-> gift, rank |-> rank]

\* generate_gift_recommendations: [] for no gifts, the parsed value unchecked,
\* or the first five gifts on any failure.  An element of the list is the id
\* it carries, or NoId for an element without an 'id' key.
NoId == "<no id>"

\* what the completion service may answer when asked to rank gifts: three of
\* them best first, five of them with one listed twice, an element without an
\* id, an id that is no gift of the batch
Completion(shape, gifts) ==
    CASE shape = "best3" -> [i \in 1..Len(Take(gifts, 3)) |-> gifts[Len(Take(gifts, 3)) + 1 - i]]
      [] shape = "repeat" -> Take(gifts, 5) \o <<gifts[1]>>
      [] shape = "noid" -> <<NoId>>
      [] OTHER -> <<"gift_0">>

generate_gift_recommendations(gifts, llm) ==
    IF Len(gifts) = 0 THEN <<>>
    ELSE IF llm.failed THEN Take(gifts, 5)
    ELSE Completion(llm.shape, gifts)

\* the loop that turns the ranked list into GiftRecommendation objects:
\* an element whose id is no gift of the batch is skipped
RECURSIVE to_recommendations(_, _, _)
to_recommendations(recommendations, batch, first_rank) ==
    IF Len(recommendations) = 0 THEN <<>>
    ELSE (IF InList(Head(recommendations), batch)
          THEN <<GiftRecommendation(Head(recommendations), first_rank)>>
          ELSE <<>>)
         \o to_recommendations(Tail(recommendations), batch, first_rank + 1)

\* _show_recommendations
_show_recommendations(ctx) ==
    IF Len(ctx.current_recommendations) = 0
    THEN Reply("no_suitable_gifts", <<>>)
    ELSE Reply("recommendations",
               [i \in 1..Len(ctx.current_recommendations) |-> ctx.current_recommendations[i].gift])

\* _show_next_recommendations
_show_next_recommendations(ctx, gp, rank) ==
    LET current_count == Len(ctx.current_recommendations)
        next_gifts == SubSeq(ctx.all_gifts, current_count + 1,
                             IF current_count + 5 < Len(ctx.all_gifts)
                             THEN current_count + 5 ELSE Len(ctx.all_gifts))
        recommendations == generate_gift_recommendations(next_gifts, rank)
        ctx1 == [ctx EXCEPT !.current_recommendations =
                    to_recommendations(recommendations, next_gifts, current_count + 1)]
    IN  IF current_count >= Len(ctx.all_gifts)
        THEN Outcome(ctx, gp, Reply("shown_all", <<>>), NoRequest, FALSE)
        ELSE IF InList(NoId, recommendations) THEN Raised(ctx, gp)
        ELSE Outcome(ctx1, gp, _show_recommendations(ctx1), NoRequest, FALSE)

\* _handle_recommendation_selection
_handle_recommendation_selection(ctx, gp, r, rank) ==
    LET selection_text == r.selected_option
        index == int(Char(selection_text, 1)) - 1
    IN  IF ~r.has_action THEN Raised(ctx, gp)
        ELSE IF r.action = "select" /\ TruthyText(selection_text)
        THEN IF /\ Char(selection_text, 1) \in {"1", "2", "3", "4", "5"}
                /\ 0 <= index /\ index < Len(ctx.current_recommendations)
             THEN Outcome([ctx EXCEPT !.selected_gift = ctx.current_recommendations[index + 1].gift,
                                      !.state = "PAYMENT"],
                          gp, Reply("payment", <<ctx.current_recommendations[index + 1].gift>>),
                          NoRequest, FALSE)
             ELSE Outcome(ctx, gp, Reply("choose_number", <<>>), NoRequest, FALSE)
        ELSE IF r.wants_more_options THEN _show_next_recommendations(ctx, gp, rank)
        ELSE IF r.updated_preferences
        THEN Outcome([ctx EXCEPT !.state = "COLLECTING_PREFERENCES"], gp,
                     Reply("update_preferences", <<>>), NoRequest, FALSE)
        ELSE Outcome(ctx, gp, Reply("choose_number", <<>>), NoRequest, FALSE)

----------------------------------------------------------------------------
(* Gift-expert/conversation_flow.py: process_user_input *)

FriendPhrases ==
    {"i am devam", "i am parth", "i am sakshi", "as devam", "as parth", "as sakshi",
     "my personality", "my essence", "my core being", "devam is glad", "agent-devam",
     "calm and balanced", "gentle", "empathetic", "nature-guided"}

friend_names == <<"devam", "parth", "sakshi">>

\* where process_user_input sends a text: "friend_phrase" (taken for a friend
\* agent's reply), "check", "friend" (handshake), or "flow" (state machine)
route(user_input) ==
    LET u == lower(user_input)
        Named(n) == contains(n, u)
    IN  IF \E ph \in FriendPhrases : contains(ph, u) THEN "friend_phrase"
        ELSE IF First(friend_names, Named) > 0
        THEN (IF contains("check", u) THEN "check" ELSE "friend")
        ELSE "flow"

\* the dispatch on context.state
dispatch(ctx, gp, in) ==
    CASE ctx.state = "INITIAL" ->
            _handle_initial_input(ctx, gp, get_occasion_and_preferences(in.llm, gp), in.cats)
      [] ctx.state = "COLLECTING_PREFERENCES" ->
            _handle_preferences_collection(ctx, gp, get_occasion_and_preferences(in.llm, gp),
                                           in.cats)
      [] ctx.state = "SELECTING_CATEGORY" ->
            _handle_category_selection(ctx, gp, process_user_selection(in.sel),
                                       in.pick, in.more, in.products)
      [] ctx.state \in {"SHOWING_RECOMMENDATIONS", "SELECTING_GIFT"} ->
            _handle_recommendation_selection(ctx, gp, process_user_selection(in.sel), in.rank)
      [] OTHER -> Outcome(ctx, gp, Reply("start_over", <<>>), NoRequest, FALSE)

\* start_conversation: reset the slot store, store a fresh context
start_conversation(gp) ==
    [ctx |-> ConversationContext(UserPreferences), global_params |-> reset_global_parameters]

\* global_memory.set_user_context, and what process_user_input hands back
Stored(contexts, user_id, o) ==
    [user_contexts |-> [u \in DOMAIN contexts \cup {user_id} |->
                           IF u = user_id THEN o.ctx ELSE contexts[u]],
     global_params |-> o.global_params, reply |-> o.reply,
     request |-> o.request, raised |-> o.raised]

\* process_user_input for a text routed to the state machine: the context is
\* created by start_conversation when the user has none
process_user_input(contexts, gp, user_id, in) ==
    LET known == user_id \in DOMAIN contexts
        start == start_conversation(gp)
    IN  Stored(contexts, user_id,
               dispatch(IF known THEN contexts[user_id] ELSE start.ctx,
                        IF known THEN gp ELSE start.global_params, in))

----------------------------------------------------------------------------
(* conversation_flow.py, llm_service.py, models.py: the root flow.  Its     *)
(* category displays and its close-match search have the text of the       *)
(* Gift-expert ones above.                                                  *)

\* models.py: UserPreferences of the root flow
RootPreferences ==
    [occasion |-> NULL, preferences |-> NULL, budget |-> NULL, category |-> NULL]

\* models.py: UserPreferences.is_complete
root_is_complete(p) == p.occasion # NULL /\ p.budget # NULL

\* llm_service.get_occasion_and_preferences: the parsed completion output
\* unchecked, or the all-null record on any failure
root_get_occasion_and_preferences(llm) ==
    IF llm.path = "failed"
    THEN [occasion |-> NULL, preferences |-> NULL, budget |-> NULL,
          missing_info |-> <<"occasion", "preferences", "budget">>]
    ELSE llm.result

\* _ask_for_missing_info: some branches fall off the end and return None
root_ask_for_missing_info(missing_info) ==
    LET n == Len(missing_info)
        has(x) == InList(x, missing_info)
    IN  IF n >= 3 THEN Reply("ask_all", <<>>)
        ELSE IF n = 2
        THEN (IF has("occasion") /\ has("preferences") THEN Reply("ask", <<"occasion", "preferences">>)
              ELSE IF has("occasion") /\ has("budget") THEN Reply("ask", <<"occasion", "budget">>)
              ELSE IF has("preferences") /\ has("budget") THEN Reply("ask", <<"preferences", "budget">>)
              ELSE Reply("None", <<>>))
        ELSE IF n = 1
        THEN (IF has("occasion") THEN Reply("ask", <<"occasion">>)
              ELSE IF has("preferences") THEN Reply("ask", <<"preferences">>)
              ELSE IF has("budget") THEN Reply("ask", <<"budget">>)
              ELSE Reply("None", <<>>))
        ELSE Reply("ask_more", <<>>)

\* the assignments of the truthy extracted values
root_store_extracted(ctx, e) ==
    [ctx EXCEPT !.preferences =
        [@ EXCEPT !.occasion = IF TruthyText(e.occasion) THEN e.occasion ELSE @,
                  !.preferences = IF TruthyText(e.preferences) THEN e.preferences ELSE @,
                  !.budget = IF TruthyText(e.budget) THEN e.budget ELSE @]]

root_handle_initial_input(ctx, gp, e, cats) ==
    LET ctx1 == root_store_extracted(ctx, e)
    IN  IF TruthyText(ctx1.preferences.occasion) /\ TruthyText(ctx1.preferences.budget)
        THEN _show_category_options([ctx1 EXCEPT !.state = "SELECTING_CATEGORY"], gp, cats)
        ELSE Outcome([ctx1 EXCEPT !.state = "COLLECTING_PREFERENCES"], gp,
                     root_ask_for_missing_info(e.missing_info), NoRequest, FALSE)

root_handle_preferences_collection(ctx, gp, e, cats) ==
    LET ctx1 == root_store_extracted(ctx, e)
    IN  IF root_is_complete(ctx1.preferences)
        THEN _show_category_options([ctx1 EXCEPT !.state = "SELECTING_CATEGORY"], gp, cats)
        ELSE Outcome(ctx1, gp, root_ask_for_missing_info(e.missing_info), NoRequest, FALSE)

\* the 15 mock gifts of _simulate_shopping_agent_call, by id
mock_gifts == [i \in 1..15 |-> "gift_" \o str(i)]

\* global_memory.add_gifts_to_user: the gifts whose id the user does not have yet
add_gifts_to_user(ctx, gifts) ==
    LET is_new(g) == ~InList(g, ctx.all_gifts)
    IN  [ctx EXCEPT !.all_gifts = @ \o SelectSeq(gifts, is_new)]

\* a search that hands the session to the SELECTING_GIFT branch of the dispatch
simulate_into_selecting_gift(ctx, rank) ==
    LET ctx1 == add_gifts_to_user(ctx, mock_gifts)
        recommendations == Take(generate_gift_recommendations(mock_gifts, rank), 5)
    IN  IF InList(NoId, recommendations) THEN [ctx |-> ctx1, raised |-> TRUE]
        ELSE [ctx |-> [ctx1 EXCEPT !.current_recommendations =
                                      to_recommendations(recommendations, mock_gifts, 1),
                                  !.state = "SELECTING_GIFT"],
              raised |-> FALSE]

\* _simulate_shopping_agent_call: the context it leaves, and whether
\* rec_data['id'] raised
root_simulate_shopping_agent_call(ctx, rank) ==
    LET ctx1 == add_gifts_to_user(ctx, mock_gifts)
        recommendations == Take(generate_gift_recommendations(mock_gifts, rank), 5)
    IN  IF InList(NoId, recommendations) THEN [ctx |-> ctx1, raised |-> TRUE]
        ELSE [ctx |-> [ctx1 EXCEPT !.current_recommendations =
                                      to_recommendations(recommendations, mock_gifts, 1),
                                  !.state = "SHOWING_RECOMMENDATIONS"],
              raised |-> FALSE]

\* _call_shopping_agent of the root flow
root_call_shopping_agent(ctx, gp, rank) ==
    LET answer(r) ==
            IF r.raised THEN Raised(r.ctx, gp)
            ELSE Outcome(r.ctx, gp, Reply("searching", <<ctx.preferences.category>>),
                         NoRequest, FALSE)
    IN  answer(root_simulate_shopping_agent_call(ctx, rank))

\* _handle_category_selection of the root flow: no number branch
root_handle_category_selection(ctx, gp, r, pick, more, rank) ==
    LET cats == ctx.available_categories
        selected == r.selected_option
        category ==
            IF selected = "surprise me" THEN cats[pick]
            ELSE IF InList(selected, cats) THEN selected
            ELSE _find_close_category_match(selected, cats)
    IN  IF ~r.has_action THEN Raised(ctx, gp)
        ELSE IF r.action = "select" /\ TruthyText(selected)
        THEN IF selected = "surprise me" /\ Len(cats) = 0 THEN Raised(ctx, gp)
             ELSE IF category # NULL
             THEN root_call_shopping_agent([ctx EXCEPT !.preferences.category = category],
                                           gp, rank)
             ELSE Outcome(ctx, gp, Reply("not_understood", <<>>), NoRequest, FALSE)
        ELSE IF r.wants_more_options THEN _show_additional_categories(ctx, gp, more)
        ELSE IF r.updated_preferences
        THEN Outcome([ctx EXCEPT !.state = "COLLECTING_PREFERENCES"], gp,
                     Reply("update_preferences", <<>>), NoRequest, FALSE)
        ELSE Outcome(ctx, gp, Reply("unclear", <<>>), NoRequest, FALSE)

root_dispatch_payment_selects(ctx, gp, in) ==
    CASE ctx.state = "INITIAL" ->
            root_handle_initial_input(ctx, gp, root_get_occasion_and_preferences(in.llm),
                                      in.cats)
      [] ctx.state = "COLLECTING_PREFERENCES" ->
            root_handle_preferences_collection(ctx, gp,
                                               root_get_occasion_and_preferences(in.llm),
                                               in.cats)
      [] ctx.state = "SELECTING_CATEGORY" ->
            root_handle_category_selection(ctx, gp, process_user_selection(in.sel),
                                           in.pick, in.more, in.rank)
      [] ctx.state \in {"SHOWING_RECOMMENDATIONS", "SELECTING_GIFT", "PAYMENT"} ->
            _handle_recommendation_selection(ctx, gp, process_user_selection(in.sel), in.rank)
      [] OTHER -> Outcome(ctx, gp, Reply("start_over", <<>>), NoRequest, FALSE)

\* the dispatch on context.state of the root process_user_input
root_dispatch(ctx, gp, in) ==
    CASE ctx.state = "INITIAL" ->
            root_handle_initial_input(ctx, gp, root_get_occasion_and_preferences(in.llm),
                                      in.cats)
      [] ctx.state = "COLLECTING_PREFERENCES" ->
            root_handle_preferences_collection(ctx, gp,
                                               root_get_occasion_and_preferences(in.llm),
                                               in.cats)
      [] ctx.state = "SELECTING_CATEGORY" ->
            root_handle_category_selection(ctx, gp, process_user_selection(in.sel),
                                           in.pick, in.more, in.rank)
      [] ctx.state \in {"SHOWING_RECOMMENDATIONS", "SELECTING_GIFT"} ->
            _handle_recommendation_selection(ctx, gp, process_user_selection(in.sel), in.rank)
      [] OTHER -> Outcome(ctx, gp, Reply("start_over", <<>>), NoRequest, FALSE)

\* process_user_input of the root flow; start_conversation stores a fresh context
root_process_user_input(contexts, gp, user_id, in) ==
    Stored(contexts, user_id,
           root_dispatch(IF user_id \in DOMAIN contexts THEN contexts[user_id]
                         ELSE ConversationContext(RootPreferences),
                         gp, in))

----------------------------------------------------------------------------
(* The environment: what the completion service, the search endpoint and   *)
(* the users may produce                                                   *)

\* the longest category list a user is shown
MaxCategories == 16

Extracted(o, r, p, bmin, bmax) ==
    [occasion |-> o, recipient |-> r, preferences |-> p,
     budget_min |-> bmin, budget_max |-> bmax]

NothingExtracted == Extracted(NULL, NULL, NULL, NULL, NULL)

ExtractedResults ==
    {NothingExtracted,
     Extracted("birthday", NULL, NULL, NULL, NULL),
     Extracted("anniversary", NULL, NULL, NULL, NULL),
     Extracted(NULL, "sister", "hiking", "100", "200"),
     Extracted(NULL, NULL, NULL, NULL, "50"),
     Extracted(EMPTY, NULL, NULL, ZERO, NULL)}

\* the "missing_info" a completion lists: the fields that are null in it
NullFields(r) ==
    (IF r.occasion = NULL THEN <<"occasion">> ELSE <<>>)
    \o (IF r.recipient = NULL THEN <<"recipient">> ELSE <<>>)
    \o (IF r.preferences = NULL THEN <<"preferences">> ELSE <<>>)
    \o (IF r.budget_min = NULL THEN <<"budget_min">> ELSE <<>>)
    \o (IF r.budget_max = NULL THEN <<"budget_max">> ELSE <<>>)

Parsed(r) == [path |-> "parsed", result |-> r, missing_info |-> <<>>]

Fixed(r, missing) == [path |-> "fixed", result |-> r, missing_info |-> missing]

ExtractionFailed == [path |-> "failed", result |-> NothingExtracted, missing_info |-> <<>>]

ExtractionOutcomes ==
    {Parsed(r) : r \in ExtractedResults}
    \cup {Fixed(r, NullFields(r)) : r \in ExtractedResults}
    \cup {Fixed(r, <<>>) : r \in ExtractedResults}
    \cup {ExtractionFailed}

ListOutcome(failed, list) == [failed |-> failed, list |-> list]

ListFailed == ListOutcome(TRUE, <<>>)

CategoryOutcomes == {ListFailed, ListOutcome(FALSE, <<"Books", "Toys">>)}

AdditionalOutcomes ==
    {ListFailed, ListOutcome(FALSE, <<"Board Games", "Books", "Candles", "Puzzles">>)}

Selection(action, option, more, updated) ==
    [failed |-> FALSE,
     result |-> [selected_option |-> option, wants_more_options |-> more,
                 updated_preferences |-> updated, action |-> action, has_action |-> TRUE]]

SelectionFailed == [failed |-> TRUE, result |-> UnclearSelection]

Ranked(shape) == [failed |-> FALSE, shape |-> shape]

RankFailed == [failed |-> TRUE, shape |-> "none"]

RankOutcomes == {RankFailed} \cup {Ranked(x) : x \in {"best3", "repeat", "noid", "foreign"}}

SelectionMalformed ==
    [failed |-> FALSE, result |-> [UnclearSelection EXCEPT !.has_action = FALSE]]

Select(option) == Selection("select", option, FALSE, FALSE)

MoreOptions == Selection("more_options", NULL, TRUE, FALSE)

UpdatePreferences == Selection("update_preferences", NULL, FALSE, TRUE)

CategoryOptions == {"0", "5", "9", "Books", "surprise me", "Category 5", "tech"}

CategorySelections ==
    {Select(o) : o \in CategoryOptions}
    \cup {MoreOptions, UpdatePreferences, Select(NULL),
          Selection("unclear", NULL, FALSE, FALSE), Selection("unclear", NULL, FALSE, TRUE),
          SelectionFailed, SelectionMalformed}

ProductOutcomes == {<<>>, <<"B01", "B02", "B03", "B04", "B05", "B06">>}

RegularTexts == {"gift for my sister, she likes hiking, budget 100-200"}

FriendPhraseTexts == {"something gentle for my mom"}

RootExtracted(o, p, b, missing) ==
    [path |-> "parsed",
     result |-> [occasion |-> o, preferences |-> p, budget |-> b, missing_info |-> missing]]

RootExtractionOutcomes ==
    {RootExtracted("birthday", "hiking", "$50-100", <<>>),
     RootExtracted("birthday", NULL, NULL, <<"preferences", "budget">>),
     RootExtracted(NULL, NULL, "under $50", <<"occasion">>),
     ExtractionFailed}

RootCategorySelections ==
    {Select("Books"), Select("surprise me"), UpdatePreferences, SelectionFailed}

RecommendationSelections ==
    {Select("1"), Select("3. Mock Gift"), Select("6"), Select("first one"),
     MoreOptions, UpdatePreferences, SelectionFailed, SelectionMalformed}

\* the inputs a handler does not read
NoInputs ==
    [llm |-> ExtractionFailed, cats |-> ListFailed, sel |-> SelectionFailed, pick |-> 1,
     more |-> ListFailed, products |-> <<>>, rank |-> RankFailed]

CollectingInputs(EO, CO) ==
    {[NoInputs EXCEPT !.llm = l, !.cats = c] : l \in EO, c \in CO}

selects(s) ==
    s.result.has_action /\ s.result.action = "select" /\ TruthyText(s.result.selected_option)

wants_more(s) == s.result.has_action /\ ~selects(s) /\ s.result.wants_more_options

\* the inputs of the category handler: the index random.choice draws matters
\* for 'surprise me' only, the additional categories for 'more options' only,
\* the search result for a selection only.  More options are asked for while
\* the list stays within MaxCategories.
CategoryInputs(ctx, SO, AO, PO) ==
    LET n == Len(ctx.available_categories)
        Fits(m) == n + Len(get_additional_categories(m)) <= MaxCategories
    IN  UNION {
          {[NoInputs EXCEPT !.sel = s, !.pick = k, !.more = m, !.products = p] :
              k \in (IF selects(s) /\ s.result.selected_option = "surprise me" /\ n > 0
                     THEN 1..n ELSE {1}),
              m \in (IF wants_more(s) THEN {x \in AO : Fits(x)} ELSE {ListFailed}),
              p \in (IF selects(s) THEN PO ELSE {<<>>})} :
          s \in SO}

\* the inputs of the root category handler
RootCategoryInputs(ctx, SO, RO) ==
    LET n == Len(ctx.available_categories)
    IN  UNION {
          {[NoInputs EXCEPT !.sel = s, !.pick = k, !.rank = r] :
              k \in (IF selects(s) /\ s.result.selected_option = "surprise me" /\ n > 0
                     THEN 1..n ELSE {1}),
              r \in (IF selects(s) THEN RO ELSE {RankFailed})} :
          s \in SO}

\* the inputs of the recommendation handler
RecommendationInputs(SO, RO) ==
    UNION {{[NoInputs EXCEPT !.sel = s, !.rank = r] :
               r \in (IF wants_more(s) THEN RO ELSE {RankFailed})} : s \in SO}

----------------------------------------------------------------------------
(* Gift-expert/agent.py: handle_message for a text item of a user *)

NoReply == [to |-> NULL, kind |-> "none", arg |-> <<>>]

\* a handler that drops the exception: nothing is sent when processing raised
SentUnlessRaised(user, r) ==
    IF r.raised \/ r.reply.kind = NULL THEN NoReply
    ELSE [to |-> user, kind |-> r.reply.kind, arg |-> r.reply.arg]

\* the try/except around process_user_input: the reply or the apology is
\* sent.  create_text_chat(None) raises inside the try (TextContent.text is
\* a str), so a flow that returned None is answered with the apology too
Sent(user, r) ==
    [to |-> user,
     kind |-> IF r.raised \/ r.reply.kind = NULL THEN "apology" ELSE r.reply.kind,
     arg |-> IF r.raised \/ r.reply.kind = NULL THEN <<>> ELSE r.reply.arg]

\* the run that sees only solo.user's messages, after one of them is handled
SoloSent(user, r) ==
    [user |-> user, user_contexts |-> r.user_contexts,
     global_params |-> r.global_params, last_reply |-> Sent(user, r)]

friend_vars ==
    <<pending_responses, original_user, handshake, in_flight, rounds, friend_search, pushed>>

\* the configuration, the arguments and results of single calls and the time
\* the waits have taken, which no handler above touches
\* self.payment_requests = {}
NoPayments == <<>>

NotProcessed == [payment_id |-> NULL, result |-> [success |-> FALSE, error |-> "none"]]

\* the state of the services beside the conversation
payment_vars == <<payment_requests, processed>>

\* the coroutines that run handle_message for texts of one user
Handlers == {"h1", "h2"}

lock_vars == <<lock, pc>>

\* no ChatMessage is being handled
NoChat == [sender |-> NULL, content |-> <<>>, sent |-> {}]

chat_vars == <<chat>>

service_vars == <<payment_vars, lock_vars, chat_vars>>

ServicesIdle ==
    /\ payment_requests = NoPayments
    /\ processed = NotProcessed
    /\ lock = NULL
    /\ pc = [h \in Handlers |-> [at |-> "idle", in |-> NoInputs]]
    /\ chat = NoChat

pure_vars == <<budget, parsed, api_key, search_preferences, searched, elapsed, service_vars>>

\* the user branch of handle_message for a text of the state machine:
\* process_user_input, and the reply or the apology sent to the user
AnswerUserText(user, in) ==
    \E r \in {process_user_input(user_contexts, global_params, user, in)} :
        /\ user_contexts' = r.user_contexts
        /\ global_params' = r.global_params
        /\ last_reply' = Sent(user, r)
        /\ http_request' = r.request
        /\ last_input' = in
        /\ update_intent' =
              IF ~r.raised /\ r.reply.kind = "update_preferences"
              THEN update_intent \cup {user} ELSE update_intent
        /\ IF user = solo.user
           THEN \E q \in {process_user_input(solo.user_contexts, solo.global_params,
                                              user, in)} : solo' = SoloSent(user, q)
           ELSE solo' = solo

HandleUserText(user, in) ==
    /\ AnswerUserText(user, in)
    /\ UNCHANGED <<friend_vars, pure_vars>>

FirstMessage(u, EO, CO) ==
    /\ u \notin DOMAIN user_contexts
    /\ \E t \in RegularTexts : route(t) = "flow"
    /\ \E in \in CollectingInputs(EO, CO) : HandleUserText(u, in)

PreferencesMessage(u, EO, CO) ==
    /\ u \in DOMAIN user_contexts
    /\ user_contexts[u].state \in {"INITIAL", "COLLECTING_PREFERENCES"}
    /\ \E t \in RegularTexts : route(t) = "flow"
    /\ \E in \in CollectingInputs(EO, CO) : HandleUserText(u, in)

CategoryMessage(u, SO, AO, PO) ==
    /\ u \in DOMAIN user_contexts
    /\ user_contexts[u].state = "SELECTING_CATEGORY"
    /\ \E t \in RegularTexts : route(t) = "flow"
    /\ \E in \in CategoryInputs(user_contexts[u], SO, AO, PO) : HandleUserText(u, in)

\* a user text that contains one of the friend phrases is answered with a
\* thank-you and is not processed
FriendPhraseMessage(u) ==
    /\ \E t \in FriendPhraseTexts : route(t) = "friend_phrase"
    /\ last_reply' = [to |-> u, kind |-> "thank_you", arg |-> <<>>]
    /\ http_request' = NoRequest
    /\ last_input' = NoInputs
    /\ UNCHANGED <<global_params, user_contexts, update_intent, solo, friend_vars, pure_vars>>

vars ==
    <<global_params, user_contexts, last_reply, http_request, last_input, update_intent,
      solo, pending_responses, original_user, handshake, in_flight, rounds,
      friend_search, pushed, budget, parsed, api_key, search_preferences,
      searched, elapsed, service_vars>>

----------------------------------------------------------------------------
(* Budget parsing: shopping_agent_interface._parse_budget_range and the    *)
(* budget part of llm_service._fallback_extraction                         *)

\* str.replace(c, "") for a character c
RECURSIVE remove(_, _)
remove(s, c) ==
    IF Len(s) = 0 THEN ""
    ELSE (IF Char(s, 1) = c THEN "" ELSE Char(s, 1)) \o remove(SubSeq(s, 2, Len(s)), c)

\* str.split(sep) for a character sep
RECURSIVE split(_, _)
split(s, sep) ==
    IF \E i \in 1..Len(s) : Char(s, i) = sep
    THEN LET i == CHOOSE j \in 1..Len(s) :
                    Char(s, j) = sep /\ \A k \in 1..(j - 1) : Char(s, k) # sep
         IN  <<SubSeq(s, 1, i - 1)>> \o split(SubSeq(s, i + 1, Len(s)), sep)
    ELSE <<s>>

\* the longest run of digits of s that starts at position i: what \d+ takes
digits_from(s, i) ==
    LET ends == {j \in i..Len(s) : \A k \in i..j : Char(s, k) \in Digits}
    IN  IF ends = {} THEN ""
        ELSE SubSeq(s, i, CHOOSE j \in ends : \A k \in ends : k <= j)

\* the first position at or after i that holds no blank: where \s* stops
skip_blanks(s, i) ==
    LET stops == {j \in i..(Len(s) + 1) : \A k \in i..(j - 1) : Char(s, k) = " "}
    IN  CHOOSE j \in stops : \A k \in stops : k <= j

\* re.findall(r'\d+', s): whether there is a number, and numbers[0]
has_number(s) == \E i \in 1..Len(s) : Char(s, i) \in Digits

first_number(s) ==
    digits_from(s, CHOOSE i \in 1..Len(s) :
                       Char(s, i) \in Digits /\ \A k \in 1..(i - 1) : Char(s, k) \notin Digits)

\* a (min, max) pair of numerals; Python's None is the pair of two Nones
Range(min_price, max_price) == [min |-> min_price, max |-> max_price]

NoRange == Range(NULL, NULL)

\* the '-' branch of _parse_budget_range: int() of a part that is no numeral
\* raises, which the except turns into None
parse_range(parts) ==
    IF ~(isdigit(strip(parts[1])) /\ isdigit(strip(parts[2]))) THEN NoRange
    ELSE IF int(strip(parts[1])) <= int(strip(parts[2]))
    THEN Range(str(int(strip(parts[1]))), str(int(strip(parts[2]))))
    ELSE NoRange

\* _parse_budget_range
_parse_budget_range(budget_text) ==
    LET b == remove(remove(lower(budget_text), "$"), ",")
    IN  IF contains("under", b) \/ contains("below", b)
        THEN (IF has_number(b) THEN Range(ZERO, str(int(first_number(b)))) ELSE NoRange)
        ELSE IF contains("+", b)
        THEN (IF has_number(b) THEN Range(str(int(first_number(b))), NULL) ELSE NoRange)
        ELSE IF contains("-", b)
        THEN (IF Len(split(b, "-")) = 2 THEN parse_range(split(b, "-")) ELSE NoRange)
        ELSE IF has_number(b)
        THEN Range(str(int(first_number(b))), str(int(first_number(b))))
        ELSE NoRange

\* re.search(r'(\d+)\s*-\s*(\d+)', s): the positions at which the pattern
\* matches, with the two groups of the match at position i
range_matches(s) ==
    {i \in 1..Len(s) :
        /\ Char(s, i) \in Digits
        /\ \E d \in {skip_blanks(s, i + Len(digits_from(s, i)))} :
              /\ d <= Len(s)
              /\ Char(s, d) = "-"
              /\ \E g \in {skip_blanks(s, d + 1)} :
                    g <= Len(s) /\ Char(s, g) \in Digits}

range_groups(s, i) ==
    LET d == skip_blanks(s, i + Len(digits_from(s, i)))
    IN  <<digits_from(s, i), digits_from(s, skip_blanks(s, d + 1))>>

\* re.search(r'under\s+(\d+)', s): the group of the first match, or None
under_match(s) ==
    LET hits == {i \in 1..(Len(s) - 5) :
                    /\ SubSeq(s, i, i + 4) = "under"
                    /\ Char(s, i + 5) = " "
                    /\ skip_blanks(s, i + 5) <= Len(s)
                    /\ Char(s, skip_blanks(s, i + 5)) \in Digits}
    IN  IF hits = {} THEN NULL
        ELSE digits_from(s, skip_blanks(s, 5 + CHOOSE i \in hits : \A k \in hits : i <= k))

\* re.search(r'\$(\d+)', s): the group of the first match, or None
dollar_match(s) ==
    LET hits == {i \in 1..(Len(s) - 1) : Char(s, i) = "$" /\ Char(s, i + 1) \in Digits}
    IN  IF hits = {} THEN NULL
        ELSE digits_from(s, 1 + CHOOSE i \in hits : \A k \in hits : i <= k)

\* _fallback_extraction, "# Extract budget": the budget_min and budget_max it
\* puts into its result
_fallback_extraction(user_input) ==
    LET m == range_matches(user_input)
        first == CHOOSE i \in m : \A k \in m : i <= k
    IN  IF m # {}
        THEN Range(str(int(range_groups(user_input, first)[1])),
                   str(int(range_groups(user_input, first)[2])))
        ELSE IF contains("under", lower(user_input))
        THEN (IF under_match(user_input) # NULL
              THEN Range(NULL, str(int(under_match(user_input))))
              ELSE NoRange)
        ELSE IF contains("$", user_input)
        THEN (IF dollar_match(user_input) # NULL
              THEN Range(str(int(dollar_match(user_input))), NULL)
              ELSE NoRange)
        ELSE NoRange

NotParsed == [op |-> "none", range |-> NoRange]

NotSearched == [op |-> "none", success |-> FALSE, errors |-> <<>>]

----------------------------------------------------------------------------
(* Gift-expert/friend_interface.py: the peer handshake.  A stored reply is  *)
(* the record [text, round]: text is what the friend agent wrote, round is *)
(* history, the handshake round whose question the reply answers.          *)

Users == {"u1", "u2"}

\* FriendInterface.agent_addresses
agent_addresses ==
    [devam |-> "agent1q2zn6sat56y3l600ya07pjsq2pmfcv2yjg3x3u65dk5acaj03kd767mlfl9",
     parth |-> "agent1q0ammultdzelux7l6u72wnwh8ze8ne6wmsqfu4dygkah8ada2gqhqyrnzsf",
     sakshi |-> "agent1q2jndpvu9re38sjkuz6qs97tvcd7nxc0d6lwt0frz0zqakvfk65csmgvkv8"]

\* self.pending_responses = {}
NoEntries == [t \in {} |-> NULL]
NoResponse == [text |-> NULL, round |-> 0]

\* what a question returns when its polling loop ran for self.timeout seconds
Timeout(round) == [text |-> "timeout", round |-> round]

\* a round that keeps what the friend answered before
keep_friend_responses(responses, friend_name) == responses

clear_friend_responses(responses, friend_name) ==
    [f \in DOMAIN responses \ {lower(friend_name)} |-> responses[f]]

handle_friend_response(responses, friend_name, response, response_type) ==
    LET f == lower(friend_name)
        stored == IF f \in DOMAIN responses THEN responses[f] ELSE NoEntries
    IN  [g \in DOMAIN responses \cup {f} |->
            IF g = f
            THEN [t \in DOMAIN stored \cup {response_type} |->
                     IF t = response_type THEN response ELSE stored[t]]
            ELSE responses[g]]

get_friend_response(responses, friend_name, response_type) ==
    LET f == lower(friend_name)
    IN  IF f \in DOMAIN responses /\ response_type \in DOMAIN responses[f]
        THEN responses[f][response_type] ELSE NoResponse

\* the replies stored for a friend
entries_of(responses, friend_name) ==
    IF lower(friend_name) \in DOMAIN responses
    THEN responses[lower(friend_name)] ELSE NoEntries

\* _search_gifts_for_friend: the preferences it builds have no budget
_search_gifts_for_friend(friend_name, gift_preferences, products) ==
    LET preferences == [occasion |-> "just because", recipient |-> friend_name,
                        preferences |-> gift_preferences, budget_min |-> NULL,
                        budget_max |-> NULL, category |-> NULL]
        found == call_shopping_agent(preferences, products)
    IN  [gifts |-> IF Len(found.gift_items) > 0 /\ found.success
                   THEN found.gift_items ELSE <<>>,
         request |-> found.request]

\* the cache the message handler reads and writes through
\* friend_interface.personality, .preferences, store_personality and
\* store_preferences: the replies polled by the handshake
has_personality(responses, f) == TruthyText(get_friend_response(responses, f, "personality").text)
has_preferences(responses, f) ==
    TruthyText(get_friend_response(responses, f, "gift_preferences").text)

store_personality(responses, friend_name, response) ==
    handle_friend_response(responses, friend_name, response, "personality")

\* store_preferences: the search is started once both replies are stored,
\* with the preferences text as its query, and its result text is returned
store_preferences(responses, friend_name, response) ==
    LET stored == handle_friend_response(responses, friend_name, response,
                                         "gift_preferences")
        both == has_personality(stored, friend_name) /\ has_preferences(stored, friend_name)
    IN  [pending_responses |-> stored, search |-> both,
         amazon_result |-> IF both THEN "results for " \o response.text ELSE NULL]

\* agent.py: the content heuristics of the friend branch
PersonalityWords == {"personality", "represents", "spirit", "character", "nature"}
PreferencesWords == {"sports", "gear", "equipment", "tools", "activities", "experiences"}
MaxShort == 100

is_personality_response(text) ==
    (\E w \in PersonalityWords : contains(w, lower(text))) \/ Len(text) > MaxShort

is_preferences_response(text) ==
    (\E w \in PreferencesWords : contains(w, lower(text))) \/ Len(text) < MaxShort

\* a friend branch that stores by content alone
classify_by_content(responses, f, text) ==
    IF is_personality_response(text) THEN "personality"
    ELSE IF is_preferences_response(text) THEN "preferences" ELSE "dropped"

\* where the friend branch puts a reply
classify(responses, f, text) ==
    IF is_personality_response(text) /\ ~has_personality(responses, f) THEN "personality"
    ELSE IF is_preferences_response(text) /\ ~has_preferences(responses, f)
    THEN "preferences" ELSE "dropped"

\* the friend the for-loop of process_user_input finds first in the text
named_friend(user_input) ==
    LET u == lower(user_input)
        Named(n) == contains(n, u)
    IN  friend_names[First(friend_names, Named)]

\* the handshakes before any message
Idle == [pc |-> "idle", friend |-> NULL, round |-> 0, personality_response |-> NoResponse]
NoSearch ==
    [by |-> "none", friend |-> NULL, round |-> 0, query |-> NoResponse, entries |-> NoEntries]
NoPush == [to |-> NULL, requested_by |-> NULL]
Friends == {"devam", "parth"}

MaxRounds == 2

Question(f, kind, round, user) == [friend |-> f, kind |-> kind, round |-> round, user |-> user]

\* no wait has begun
NotWaited ==
    [q \in {Question(f, kind, round, user) :
                f \in Friends, kind \in {"personality", "gift_preferences"},
                round \in 1..MaxRounds, user \in Users} |-> 0]

\* the agents after construction
Constructed(solo_user) ==
    /\ global_params = GlobalParameters
    /\ user_contexts = [u \in {} |-> NULL]
    /\ last_reply = NoReply
    /\ http_request = NoRequest
    /\ last_input = NoInputs
    /\ update_intent = {}
    /\ solo = [user |-> solo_user, user_contexts |-> [u \in {} |-> NULL],
               global_params |-> GlobalParameters, last_reply |-> NoReply]
    /\ pending_responses = [f \in {} |-> NoEntries]
    /\ original_user = NULL
    /\ handshake = [u \in Users |-> Idle]
    /\ in_flight = {}
    /\ rounds = [f \in Friends |-> 0]
    /\ friend_search = NoSearch
    /\ pushed = NoPush

\* a deployed agent: the API key is set
Start(solo_user) ==
    /\ Constructed(solo_user)
    /\ budget = NULL
    /\ parsed = NotParsed
    /\ api_key = TRUE
    /\ search_preferences = UserPreferences
    /\ searched = NotSearched
    /\ elapsed = NotWaited
    /\ ServicesIdle

Init == Start(NULL)

----------------------------------------------------------------------------
(* agent.py: handle_message of the root agent for a text item *)

RootHandleUserText(user, in) ==
    \E r \in {root_process_user_input(user_contexts, global_params, user, in)} :
        /\ user_contexts' = r.user_contexts
        /\ global_params' = r.global_params
        /\ last_reply' = Sent(user, r)
        /\ http_request' = r.request
        /\ last_input' = in
        /\ update_intent' =
              IF ~r.raised /\ r.reply.kind = "update_preferences"
              THEN update_intent \cup {user} ELSE update_intent
        /\ UNCHANGED <<solo, friend_vars, pure_vars>>

RootFirstMessage(u, EO, CO) ==
    /\ u \notin DOMAIN user_contexts
    /\ \E in \in CollectingInputs(EO, CO) : RootHandleUserText(u, in)

RootPreferencesMessage(u, EO, CO) ==
    /\ u \in DOMAIN user_contexts
    /\ user_contexts[u].state \in {"INITIAL", "COLLECTING_PREFERENCES"}
    /\ \E in \in CollectingInputs(EO, CO) : RootHandleUserText(u, in)

RootCategoryMessage(u, SO, RO) ==
    /\ u \in DOMAIN user_contexts
    /\ user_contexts[u].state = "SELECTING_CATEGORY"
    /\ \E in \in RootCategoryInputs(user_contexts[u], SO, RO) : RootHandleUserText(u, in)

RootRecommendationMessage(u, SO, RO) ==
    /\ u \in DOMAIN user_contexts
    /\ user_contexts[u].state \in {"SHOWING_RECOMMENDATIONS", "SELECTING_GIFT"}
    /\ \E in \in RecommendationInputs(SO, RO) : RootHandleUserText(u, in)

\* a message of a user whose session is in PAYMENT or COMPLETED
RootTerminalMessage(u, SO, RO) ==
    /\ u \in DOMAIN user_contexts
    /\ user_contexts[u].state \in {"PAYMENT", "COMPLETED"}
    /\ \E in \in RecommendationInputs(SO, RO) : RootHandleUserText(u, in)

(* One user of the root agent *)

RootNext ==
    \/ RootFirstMessage("u1", RootExtractionOutcomes, {ListFailed})
    \/ RootPreferencesMessage("u1", RootExtractionOutcomes, {ListFailed})
    \/ RootCategoryMessage("u1", RootCategorySelections, RankOutcomes)
    \/ RootRecommendationMessage("u1", RecommendationSelections, RankOutcomes)
    \/ RootTerminalMessage("u1", RecommendationSelections, RankOutcomes)

SpecRoot == Init /\ [][RootNext]_vars

(* One user of the Gift-expert agent, every extraction outcome *)

SlotsNext ==
    \/ FirstMessage("u1", ExtractionOutcomes, {ListFailed})
    \/ PreferencesMessage("u1", ExtractionOutcomes, {ListFailed})
    \/ CategoryMessage("u1", {UpdatePreferences, Select("5"), SelectionFailed},
                       {ListFailed}, {<<"B01", "B02">>})
    \/ FriendPhraseMessage("u1")

SpecSlots == Init /\ [][SlotsNext]_vars

(* One user of the Gift-expert agent, every category selection *)

CategoryNext ==
    \/ FirstMessage("u1", {Parsed(Extracted("birthday", "sister", "hiking", "100", "200")),
                            Parsed(Extracted("birthday", NULL, NULL, NULL, NULL))},
                    CategoryOutcomes)
    \/ PreferencesMessage("u1", {Parsed(Extracted(NULL, "sister", "hiking", "100", "200"))},
                          CategoryOutcomes)
    \/ CategoryMessage("u1", CategorySelections, AdditionalOutcomes, ProductOutcomes)
    \/ FriendPhraseMessage("u1")

SpecCategory == Init /\ [][CategoryNext]_vars

(* Two users of the Gift-expert agent, next to the run in which only the   *)
(* first user's messages are handled.  Both runs get the same message and  *)
(* the same completion output in every step of the first user.             *)

SessionExtractions ==
    {Parsed(Extracted("birthday", NULL, NULL, NULL, NULL)),
     Parsed(Extracted("anniversary", "sister", "hiking", NULL, NULL)),
     Parsed(Extracted(NULL, NULL, NULL, "100", "200"))}

SessionsInit == Start("u1")

SessionsNext ==
    \/ \E u \in Users : FirstMessage(u, SessionExtractions, CategoryOutcomes)
    \/ \E u \in Users : PreferencesMessage(u, SessionExtractions, CategoryOutcomes)
    \/ \E u \in Users : CategoryMessage(u, {Select("Books"), UpdatePreferences},
                                        {ListFailed}, {<<"B01">>})

SpecSessions == SessionsInit /\ [][SessionsNext]_vars

----------------------------------------------------------------------------
(* Gift-expert/agent.py, friend_interface.py: the handshake with a friend's *)
(* agent.  A handler that waits in a polling loop is suspended (await       *)
(* asyncio.sleep), and other messages are handled in between.               *)

FriendTexts == {"a gift for Devam", "what would parth like"}

\* what a friend agent may answer to either question
ReplyTexts == {"a calm personality", "sports gear"}

\* history: the handshake rounds started so far
RoundsStarted == rounds["devam"] + rounds["parth"]

\* a user's text that names a friend: handle_message stores the sender as
\* original_user, process_user_input calls communicate_with_friend, which
\* clears the friend's replies, sends the personality question and polls
BeginRound(u, t) ==
    /\ handshake[u].pc = "idle"
    /\ route(t) = "friend"
    /\ \E f \in {named_friend(t)} :
          /\ f \in DOMAIN agent_addresses
          /\ f \in Friends
          /\ RoundsStarted < MaxRounds
          /\ original_user' = u
          /\ pending_responses' = clear_friend_responses(pending_responses, f)
          /\ rounds' = [rounds EXCEPT ![f] = @ + 1]
          /\ in_flight' = in_flight \cup {Question(f, "personality", rounds[f] + 1, u)}
          /\ handshake' = [handshake EXCEPT ![u] =
                              [pc |-> "personality", friend |-> f, round |-> rounds[f] + 1,
                               personality_response |-> NoResponse]]
    /\ last_input' = NoInputs
    /\ UNCHANGED <<global_params, user_contexts, last_reply, http_request, update_intent,
                   solo, friend_search, pushed>>

MentionFriend(u, t) ==
    /\ BeginRound(u, t)
    /\ UNCHANGED pure_vars

\* _ask_about_personality returns response, _ask_about_gift_preferences sends
\* its question and polls
AskPreferences(u, response) ==
    /\ handshake' = [handshake EXCEPT ![u].pc = "preferences",
                                      ![u].personality_response = response]
    /\ in_flight' = in_flight \cup {Question(handshake[u].friend, "gift_preferences",
                                             handshake[u].round, u)}
    /\ UNCHANGED <<global_params, user_contexts, last_reply, http_request, last_input,
                   update_intent, solo, pending_responses, original_user, rounds,
                   friend_search, pushed, pure_vars>>

PersonalityAnswered(u) ==
    /\ handshake[u].pc = "personality"
    /\ \E r \in {get_friend_response(pending_responses, handshake[u].friend, "personality")} :
          TruthyText(r.text) /\ AskPreferences(u, r)

PersonalityTimeout(u) ==
    /\ handshake[u].pc = "personality"
    /\ ~has_personality(pending_responses, handshake[u].friend)
    /\ AskPreferences(u, Timeout(handshake[u].round))

\* _ask_about_gift_preferences returns response: communicate_with_friend
\* searches with it and returns the text that handle_message sends to the user
SearchAndAnswer(u, response, products) ==
    \E found \in {_search_gifts_for_friend(handshake[u].friend, response.text, products)} :
        /\ friend_search' =
              [by |-> "communicate_with_friend", friend |-> handshake[u].friend,
               round |-> handshake[u].round, query |-> response,
               entries |-> entries_of(pending_responses, handshake[u].friend)]
        /\ http_request' = found.request
        /\ last_reply' =
              [to |-> u, kind |-> "friend_recommendations",
               arg |-> <<handshake[u].personality_response.text, response.text,
                         Take(found.gifts, 3)>>]
        /\ handshake' = [handshake EXCEPT ![u] = Idle]
        /\ UNCHANGED <<global_params, user_contexts, last_input, update_intent, solo,
                       pending_responses, original_user, in_flight, rounds, pushed,
                       pure_vars>>

PreferencesAnswered(u, PO) ==
    /\ handshake[u].pc = "preferences"
    /\ \E r \in {get_friend_response(pending_responses, handshake[u].friend,
                                      "gift_preferences")} :
          /\ TruthyText(r.text)
          /\ \E products \in PO : SearchAndAnswer(u, r, products)

PreferencesTimeout(u, PO) ==
    /\ handshake[u].pc = "preferences"
    /\ ~has_preferences(pending_responses, handshake[u].friend)
    /\ \E products \in PO : SearchAndAnswer(u, Timeout(handshake[u].round), products)

\* handle_message for the text of a friend agent: the answer to a question
\* in flight.  The friend is found by the sender address, the reply is
\* classified by its content and stored unless that kind is stored already;
\* a result of store_preferences is sent to original_user
StoreFriendText(q, text) ==
    /\ \E kind \in {classify(pending_responses, q.friend, text)},
          response \in {[text |-> text, round |-> q.round]} :
          CASE kind = "personality" ->
                  /\ pending_responses' =
                        store_personality(pending_responses, q.friend, response)
                  /\ UNCHANGED <<last_reply, http_request, friend_search, pushed>>
            [] kind = "preferences" ->
                  \E stored \in {store_preferences(pending_responses, q.friend, response)} :
                      /\ pending_responses' = stored.pending_responses
                      /\ IF stored.search
                         THEN /\ friend_search' =
                                    [by |-> "store_preferences", friend |-> q.friend,
                                     round |-> rounds[q.friend], query |-> response,
                                     entries |-> entries_of(stored.pending_responses,
                                                            q.friend)]
                              /\ http_request' =
                                    [issued |-> TRUE, query |-> <<text>>,
                                     min_price |-> NULL, max_price |-> NULL]
                         ELSE UNCHANGED <<friend_search, http_request>>
                      /\ IF TruthyText(stored.amazon_result) /\ TruthyText(original_user)
                         THEN /\ last_reply' = [to |-> original_user, kind |-> "amazon_result",
                                                 arg |-> <<stored.amazon_result>>]
                              /\ pushed' = [to |-> original_user, requested_by |-> q.user]
                         ELSE UNCHANGED <<last_reply, pushed>>
            [] OTHER ->
                  UNCHANGED <<pending_responses, last_reply, http_request, friend_search,
                              pushed>>
    /\ UNCHANGED <<global_params, user_contexts, last_input, update_intent, solo,
                   original_user, handshake, rounds>>

FriendText(q, text) ==
    /\ StoreFriendText(q, text)
    /\ UNCHANGED pure_vars

\* the text of a friend agent that answers the question q in flight
FriendReply(q, text) ==
    /\ q \in in_flight
    /\ agent_addresses[q.friend] \in {agent_addresses[f] : f \in DOMAIN agent_addresses}
    /\ in_flight' = in_flight \ {q}
    /\ FriendText(q, text)

(* Two users who ask about friends *)

FriendNext ==
    \/ \E u \in Users, t \in FriendTexts : MentionFriend(u, t)
    \/ \E u \in Users : PersonalityAnswered(u)
    \/ \E u \in Users : PersonalityTimeout(u)
    \/ \E u \in Users : PreferencesAnswered(u, {<<"B01", "B02">>})
    \/ \E u \in Users : PreferencesTimeout(u, {<<"B01", "B02">>})
    \/ \E q \in in_flight, text \in ReplyTexts : FriendReply(q, text)

SpecFriend == Init /\ [][FriendNext]_vars

----------------------------------------------------------------------------
(* Properties of the Gift-expert flow *)

\* the state of a user's session; a user without a context starts in INITIAL
StateOf(contexts, u) == IF u \in DOMAIN contexts THEN contexts[u].state ELSE "INITIAL"

\* C1: slot immutability.  In every step, a slot that is non-null keeps its
\* value, in the shared slot store and in the context.preferences of every
\* session whose user has not had an 'update preferences' intent processed.
C1_SlotImmutability ==
    [][\A k \in SlotNames :
          /\ (update_intent = {} /\ global_params[k] # NULL)
                => global_params'[k] = global_params[k]
          /\ \A u \in DOMAIN user_contexts :
                (u \notin update_intent /\ user_contexts[u].preferences[k] # NULL)
                   => user_contexts'[u].preferences[k] = user_contexts[u].preferences[k]]_vars

\* C2: completeness gating.  A step that takes a session from INITIAL or
\* COLLECTING_PREFERENCES to SELECTING_CATEGORY ends with occasion, recipient,
\* preferences and at least one budget bound of the session non-null.
C2_CompletenessGating ==
    [][\A u \in DOMAIN user_contexts' :
          (/\ StateOf(user_contexts, u) \in {"INITIAL", "COLLECTING_PREFERENCES"}
           /\ user_contexts'[u].state = "SELECTING_CATEGORY")
             => is_complete(Slots(user_contexts'[u].preferences))]_vars

\* the completion service resolved the user's text to a selection of option
Selects(sel, option) ==
    LET r == process_user_selection(sel)
    IN  r.has_action /\ r.action = "select" /\ r.selected_option = option

\* C3: in SELECTING_CATEGORY, a 'select' result that names a category of the
\* offered list, or 'surprise me', sets preferences.category, triggers the
\* product search and leaves the session in SHOWING_RECOMMENDATIONS.
C3_CategorySelected ==
    [][\A u \in DOMAIN user_contexts :
          (/\ user_contexts[u].state = "SELECTING_CATEGORY"
           /\ last_reply'.to = u
           /\ \E c \in {"surprise me"} \cup
                       {user_contexts[u].available_categories[i] :
                           i \in 1..Len(user_contexts[u].available_categories)} :
                 Selects(last_input'.sel, c))
             => /\ user_contexts'[u].preferences.category # NULL
                /\ http_request'.issued
                /\ user_contexts'[u].state = "SHOWING_RECOMMENDATIONS"]_vars

----------------------------------------------------------------------------
(* Properties of the root flow *)

\* the digit k a selection's option starts with, or 0
LeadingDigit(sel) ==
    LET r == process_user_selection(sel)
    IN  IF /\ r.has_action /\ r.action = "select" /\ TruthyText(r.selected_option)
           /\ Char(r.selected_option, 1) \in Digits
        THEN int(Char(r.selected_option, 1)) ELSE 0

\* C4: in SHOWING_RECOMMENDATIONS, a 'select' result whose option starts with
\* the digit k, 1 <= k <= len(current_recommendations), sets selected_gift to
\* the gift of the k-th recommendation and moves the session to PAYMENT; and a
\* session enters PAYMENT in no other step.
C4_NumericPick ==
    [][\A u \in DOMAIN user_contexts :
          LET k == LeadingDigit(last_input'.sel)
              picks == /\ user_contexts[u].state = "SHOWING_RECOMMENDATIONS"
                       /\ last_reply'.to = u
                       /\ 1 <= k /\ k <= Len(user_contexts[u].current_recommendations)
          IN  /\ picks => /\ user_contexts'[u].state = "PAYMENT"
                          /\ user_contexts'[u].selected_gift =
                                user_contexts[u].current_recommendations[k].gift
              /\ (user_contexts[u].state # "PAYMENT" /\ user_contexts'[u].state = "PAYMENT")
                    => picks]_vars

\* C5: PAYMENT is terminal.  No step changes the state, the selected gift,
\* the slots or the recommendations of a session that is in PAYMENT.
C5_PaymentTerminal ==
    [][\A u \in DOMAIN user_contexts :
          user_contexts[u].state = "PAYMENT"
             => /\ user_contexts'[u].state = "PAYMENT"
                /\ user_contexts'[u].selected_gift = user_contexts[u].selected_gift
                /\ user_contexts'[u].preferences = user_contexts[u].preferences
                /\ user_contexts'[u].current_recommendations =
                      user_contexts[u].current_recommendations]_vars

\* C5: a message of a user whose session is in PAYMENT was answered
C5_Witness ==
    \E u \in DOMAIN user_contexts :
        /\ user_contexts[u].state = "PAYMENT"
        /\ user_contexts[u].selected_gift # NULL
        /\ last_reply.to = u
        /\ last_reply.kind = "start_over"
        /\ LeadingDigit(last_input.sel) = 1

----------------------------------------------------------------------------
(* Properties of two sessions of the Gift-expert agent *)

\* the state and the slots of a user's session, if the user has one
Session(contexts, u) ==
    IF u \in DOMAIN contexts
    THEN {[state |-> contexts[u].state, preferences |-> contexts[u].preferences]}
    ELSE {}

\* C10: session isolation.  The state and the slots of the first user's
\* session, and the reply to each of that user's messages, are the same as in
\* the run in which only that user's messages are handled: a message of
\* another user neither resets nor fills a slot the session then uses.
C10_SessionIsolation ==
    /\ Session(user_contexts, solo.user) = Session(solo.user_contexts, solo.user)
    /\ last_reply.to = solo.user => last_reply = solo.last_reply

----------------------------------------------------------------------------
(* Properties of the peer handshake *)

\* C7: handshake completion.  A gift search is started for a friend only when
\* both the personality and the preferences reply of that friend are stored;
\* in particular not after a question that ended without a reply.
C7_SearchOnlyAfterBothReplies ==
    friend_search.by # "none" =>
        /\ has_personality(friend_search.friend :> friend_search.entries,
                           friend_search.friend)
        /\ has_preferences(friend_search.friend :> friend_search.entries,
                           friend_search.friend)

\* C8: no stale reply.  The personality a handshake of round n got from its
\* poll, and the preferences a search of round n uses as its query, answer
\* questions of round n: none is the reply to a question of an earlier round
\* that arrived after round n cleared the friend's replies.
C8_NoStaleReply ==
    /\ \A u \in Users :
          handshake[u].pc = "preferences" =>
              handshake[u].personality_response.round = handshake[u].round
    /\ friend_search.by # "none" => friend_search.query.round = friend_search.round

\* C9: the result of the search started by a friend's preferences reply is
\* sent to the user whose message started that friend request.
C9_ResultToRequestingUser ==
    pushed.to # NULL => pushed.to = pushed.requested_by

----------------------------------------------------------------------------
(* Properties of the extraction and of the message handler *)

\* a step in which a collecting handler of user u called the extraction
Extracting(u) ==
    /\ StateOf(user_contexts, u) \in {"INITIAL", "COLLECTING_PREFERENCES"}
    /\ last_reply'.to = u
    /\ last_reply'.kind # "thank_you"

\* the slot store get_occasion_and_preferences reads: start_conversation
\* resets it before the first message of a user is handled
StoreAtCall(u) ==
    IF u \in DOMAIN user_contexts THEN global_params ELSE reset_global_parameters

\* C11: extraction failure is non-fatal.  Whatever the completion service
\* produced, also when it raised or its output cannot be parsed,
\* get_occasion_and_preferences returns a slot record to the handler and
\* raises nothing.
C11_ExtractionNonFatal ==
    [][\A u \in Users :
          Extracting(u) =>
              ~get_occasion_and_preferences(last_input'.llm, StoreAtCall(u)).raised]_vars

\* C12: one reply per user text.  Every text of a user is answered with one
\* text to that user: the flow's response, or the apology when processing
\* raised; the exception stays in the handler, and the next message of the
\* user can be handled.
C12_OneReplyPerText ==
    [][\/ last_reply' = [to |-> "u1", kind |-> "thank_you", arg |-> <<>>]
       \/ \E r \in {process_user_input(user_contexts, global_params, "u1", last_input')} :
             /\ last_reply'.to = "u1"
             /\ last_reply'.kind \notin {"none", NULL}
             /\ r.raised => last_reply'.kind = "apology"
             /\ ~r.raised => /\ last_reply'.kind = r.reply.kind
                             /\ last_reply'.arg = r.reply.arg]_vars

\* an apology was sent to a user whose session has moved on before: the
\* handler went on handling messages after it
C12_Witness ==
    /\ last_reply = [to |-> "u1", kind |-> "apology", arg |-> <<>>]
    /\ StateOf(user_contexts, "u1") = "COLLECTING_PREFERENCES"


\* the step in which the root flow ranked the mock gifts for user u: the
\* category was selected and _simulate_shopping_agent_call went through
Ranking(u) ==
    /\ StateOf(user_contexts, u) = "SELECTING_CATEGORY"
    /\ StateOf(user_contexts', u) = "SHOWING_RECOMMENDATIONS"

\* C13: recommendation cap.  Whatever the completion service answers,
\* generate_gift_recommendations returns at most 5 items: every step that
\* ranks the gifts of a search gets a list of length <= 5 from it.
C13_RecommendationCap ==
    [][\A u \in Users :
          Ranking(u) =>
              Len(generate_gift_recommendations(mock_gifts, last_input'.rank)) <= 5]_vars

NoDuplicates(seq) == \A i, j \in 1..Len(seq) : seq[i] = seq[j] => i = j

\* C14: category pagination.  In SELECTING_CATEGORY, after any number of
\* 'more options' requests, available_categories holds no category name twice.
C14_NoDuplicateCategory ==
    \A u \in DOMAIN user_contexts :
        user_contexts[u].state = "SELECTING_CATEGORY" =>
            NoDuplicates(user_contexts[u].available_categories)

\* the questions that the null slots of a slot set call for
StillMissing(prefs) ==
    {k \in {"occasion", "recipient", "preferences"} : prefs[k] = NULL}
    \cup (IF prefs.budget_min = NULL \/ prefs.budget_max = NULL THEN {"budget"} ELSE {})

Asked(reply) == {reply.arg[i] : i \in 1..Len(reply.arg)}

\* C16: a message handled in INITIAL or COLLECTING_PREFERENCES whose
\* extraction was parsed and which leaves a slot of the session null puts the
\* session in COLLECTING_PREFERENCES, and the reply asks for exactly the slots
\* that are still null: every missing one, no filled one.
C16_AsksExactlyMissing ==
    [][\A u \in Users :
          (/\ Extracting(u)
           /\ last_input'.llm.path = "parsed"
           /\ u \in DOMAIN user_contexts'
           /\ StillMissing(user_contexts'[u].preferences) # {})
          => /\ user_contexts'[u].state = "COLLECTING_PREFERENCES"
             /\ last_reply'.kind = "ask_missing"
             /\ Asked(last_reply') = StillMissing(user_contexts'[u].preferences)]_vars

\* a numeric selection that names no position of the list
OutOfRange(sel, categories) ==
    /\ selects(sel)
    /\ isdigit(sel.result.selected_option)
    /\ ~InList(sel.result.selected_option, categories)
    /\ int(sel.result.selected_option) \notin 1..Len(categories)

----------------------------------------------------------------------------
(* The budget parsing applied to budget texts *)

MaxBudget == 12

\* the text '<A>-<B>', with a '$' in front or not
RangeText(dollar, a, b) == dollar \o str(a) \o "-" \o str(b)

BudgetTexts ==
    {RangeText(d, a, b) : d \in {"", "$"}, a \in 0..MaxBudget, b \in 0..MaxBudget}
    \cup {"under $50", "below 20", "$100+", "$75", "around 1,000", "50 - 20", "cheap"}

BudgetInit ==
    /\ Constructed(NULL)
    /\ budget \in BudgetTexts
    /\ parsed = NotParsed
    /\ api_key = TRUE
    /\ search_preferences = UserPreferences
    /\ searched = NotSearched
    /\ elapsed = NotWaited
    /\ ServicesIdle

ParseBudgetRange ==
    /\ parsed' = [op |-> "_parse_budget_range", range |-> _parse_budget_range(budget)]
    /\ UNCHANGED <<global_params, user_contexts, last_reply, http_request, last_input,
                   update_intent, solo, friend_vars, budget, api_key,
                   search_preferences, searched, elapsed, service_vars>>

FallbackExtraction ==
    /\ parsed' = [op |-> "_fallback_extraction", range |-> _fallback_extraction(budget)]
    /\ UNCHANGED <<global_params, user_contexts, last_reply, http_request, last_input,
                   update_intent, solo, friend_vars, budget, api_key,
                   search_preferences, searched, elapsed, service_vars>>

BudgetNext == ParseBudgetRange \/ FallbackExtraction

SpecBudget == BudgetInit /\ [][BudgetNext]_vars

\* what the budget parsing has to make of the text '<A>-<B>'
Expected(a, b) == IF a <= b THEN Range(str(a), str(b)) ELSE NoRange

\* C15: budget parse boundary.  A budget text 'A-B' or '$A-B' with A > B is
\* parsed to no budget, neither accepted as (A, B) nor swapped to (B, A);
\* with A <= B it is parsed to min = A, max = B.
C15_BudgetBoundary ==
    \A d \in {"", "$"}, a \in 0..MaxBudget, b \in 0..MaxBudget :
        (budget = RangeText(d, a, b) /\ parsed.op # "none") => parsed.range = Expected(a, b)

----------------------------------------------------------------------------
(* The product search applied to preferences, with and without an API key *)

SearchPreferences ==
    {[UserPreferences EXCEPT !.occasion = o, !.recipient = r, !.preferences = p,
                             !.budget_min = bmin, !.budget_max = bmax] :
        o \in {NULL, "birthday"}, r \in {NULL, EMPTY, "sister"}, p \in {NULL, "hiking"},
        bmin \in {NULL, ZERO, "100"}, bmax \in {NULL, "200"}}

SearchInit ==
    /\ Constructed(NULL)
    /\ budget = NULL
    /\ parsed = NotParsed
    /\ api_key \in BOOLEAN
    /\ search_preferences \in SearchPreferences
    /\ searched = NotSearched
    /\ elapsed = NotWaited
    /\ ServicesIdle

\* a call of shopping_agent_interface.call_shopping_agent(preferences)
CallShoppingAgent ==
    /\ \E products \in ProductOutcomes :
          \E r \in {call_shopping_agent(search_preferences, products)} :
             /\ searched' = [op |-> "call_shopping_agent", success |-> r.success,
                             errors |-> r.errors]
             /\ http_request' = r.request
    /\ UNCHANGED <<global_params, user_contexts, last_reply, last_input, update_intent,
                   solo, friend_vars, budget, parsed, api_key, search_preferences,
                   elapsed, service_vars>>

\* a call of the flow's _call_shopping_agent(context) for a session with
\* these preferences
FlowCallShoppingAgent ==
    /\ \E products \in ProductOutcomes :
          \E r \in {_call_shopping_agent(ConversationContext(search_preferences),
                                         global_params, products)} :
             /\ searched' = [op |-> "_call_shopping_agent",
                             success |-> r.reply.kind = "products",
                             errors |-> IF r.reply.kind = "missing_requirements"
                                        THEN r.reply.arg ELSE <<>>]
             /\ http_request' = r.request
    /\ UNCHANGED <<global_params, user_contexts, last_reply, last_input, update_intent,
                   solo, friend_vars, budget, parsed, api_key, search_preferences,
                   elapsed, service_vars>>

SearchNext == CallShoppingAgent \/ FlowCallShoppingAgent

SpecSearch == SearchInit /\ [][SearchNext]_vars

\* the requirements that are null in p: occasion, recipient, preferences, and
\* the budget when both bounds are null
NullRequirements(p) ==
    {k \in {"occasion", "recipient", "preferences"} : p[k] = NULL}
    \cup (IF p.budget_min = NULL /\ p.budget_max = NULL
          THEN {"budget_min", "budget_max"} ELSE {})

Listed(errors) == {errors[i] : i \in 1..Len(errors)}

----------------------------------------------------------------------------
(* friend_interface.py: the two waits of the handshake, with their clock  *)

\* the polls that fit into self.timeout: one every 0.5 s of the 30 s
MaxPolls == 3

\* the question user u's handshake is waiting on
Waiting(u) ==
    Question(handshake[u].friend,
             IF handshake[u].pc = "personality" THEN "personality" ELSE "gift_preferences",
             handshake[u].round, u)

\* a loop that never looks at the clock
time_left_always(q) == TRUE

\* while time.time() - start_time < self.timeout
time_left(q) == elapsed[q] < MaxPolls

\* the poll found no reply: await asyncio.sleep(0.5)
Sleep(u) ==
    /\ handshake[u].pc \in {"personality", "preferences"}
    /\ time_left(Waiting(u))
    /\ ~TruthyText(get_friend_response(pending_responses, handshake[u].friend,
                                       Waiting(u).kind).text)
    /\ elapsed' = [elapsed EXCEPT ![Waiting(u)] = IF @ < MaxPolls THEN @ + 1 ELSE @]
    /\ UNCHANGED <<global_params, user_contexts, last_reply, http_request, last_input,
                   update_intent, solo, friend_vars, budget, parsed, api_key,
                   search_preferences, searched, service_vars>>

\* a poll of _ask_about_personality finds the reply
PersonalityPolled(u) ==
    /\ handshake[u].pc = "personality"
    /\ time_left(Waiting(u))
    /\ PersonalityAnswered(u)

\* the loop of _ask_about_personality ends: the timeout text is returned
PersonalityExpired(u) ==
    /\ handshake[u].pc = "personality"
    /\ ~time_left(Waiting(u))
    /\ AskPreferences(u, Timeout(handshake[u].round))

\* a poll of _ask_about_gift_preferences finds the reply
PreferencesPolled(u, PO) ==
    /\ handshake[u].pc = "preferences"
    /\ time_left(Waiting(u))
    /\ PreferencesAnswered(u, PO)

\* the loop of _ask_about_gift_preferences ends: the timeout text is returned
PreferencesExpired(u, PO) ==
    /\ handshake[u].pc = "preferences"
    /\ ~time_left(Waiting(u))
    /\ \E products \in PO : SearchAndAnswer(u, Timeout(handshake[u].round), products)

\* the steps of user u's communicate_with_friend coroutine
Handshake(u) ==
    \/ Sleep(u)
    \/ PersonalityPolled(u)
    \/ PersonalityExpired(u)
    \/ PreferencesPolled(u, {<<"B01", "B02">>})
    \/ PreferencesExpired(u, {<<"B01", "B02">>})

(* One user who asks about a friend that may or may not answer.  The event *)
(* loop resumes a coroutine whose sleep is over: weak fairness of its steps *)

WaitNext ==
    \/ \E t \in {"a gift for Devam"} : MentionFriend("u1", t)
    \/ Sleep("u1")
    \/ PersonalityPolled("u1")
    \/ PersonalityExpired("u1")
    \/ PreferencesPolled("u1", {<<"B01", "B02">>})
    \/ PreferencesExpired("u1", {<<"B01", "B02">>})
    \/ \E q \in in_flight, text \in ReplyTexts : FriendReply(q, text)

SpecWait == Init /\ [][WaitNext]_vars /\ WF_vars(Handshake("u1"))

\* C19: each of the two waits of the handshake ends, with the friend's reply
\* or with the timeout text, and communicate_with_friend returns to its
\* caller, also when the friend never replies.
C19_WaitsTerminate ==
    /\ (handshake["u1"].pc = "personality") ~> (handshake["u1"].pc = "preferences")
    /\ (handshake["u1"].pc = "preferences") ~> (handshake["u1"].pc = "idle")

\* C19: the handshake returned after both waits ran into the timeout
C19_Witness ==
    /\ handshake["u1"].pc = "idle"
    /\ last_reply.to = "u1"
    /\ last_reply.kind = "friend_recommendations"
    /\ \E q \in DOMAIN elapsed :
          q.kind = "personality" /\ q.user = "u1" /\ elapsed[q] = MaxPolls
    /\ \E q \in DOMAIN elapsed :
          q.kind = "gift_preferences" /\ q.user = "u1" /\ elapsed[q] = MaxPolls

----------------------------------------------------------------------------
(* friend_interface.py: communicate_with_friend called with any friend     *)
(* name, with or without an execution context                              *)

\* a rejection that forgets the execution context
rejection_unknown_only(friend_name, ctx) ==
    IF lower(friend_name) \notin DOMAIN agent_addresses THEN "unknown_friend" ELSE NULL

\* the two early returns of communicate_with_friend: which one is taken, or
\* None when the handshake begins
rejection(friend_name, ctx) ==
    IF lower(friend_name) \notin DOMAIN agent_addresses THEN "unknown_friend"
    ELSE IF ctx = NULL THEN "no_context"
    ELSE NULL

FriendNames == {"Devam", "alice", ""}

Contexts == {NULL, "ctx"}

Call(friend_name, ctx) ==
    [call |-> "communicate_with_friend", friend_name |-> friend_name, ctx |-> ctx]

\* a call of communicate_with_friend(friend_name, ctx) for user u: a rejection
\* text, or the cleared replies and the first question
CommunicateWithFriend(u, friend_name, ctx) ==
    /\ handshake[u].pc = "idle"
    /\ last_input' = Call(friend_name, ctx)
    /\ IF rejection(friend_name, ctx) # NULL
       THEN /\ last_reply' = [to |-> u, kind |-> rejection(friend_name, ctx),
                              arg |-> <<friend_name>>]
            /\ UNCHANGED <<pending_responses, rounds, in_flight, handshake>>
       ELSE \E f \in {lower(friend_name)} :
               /\ f \in Friends
               /\ RoundsStarted < MaxRounds
               /\ pending_responses' = clear_friend_responses(pending_responses, friend_name)
               /\ rounds' = [rounds EXCEPT ![f] = @ + 1]
               /\ in_flight' = in_flight \cup {Question(f, "personality", rounds[f] + 1, u)}
               /\ handshake' = [handshake EXCEPT ![u] =
                                   [pc |-> "personality", friend |-> f,
                                    round |-> rounds[f] + 1,
                                    personality_response |-> NoResponse]]
               /\ UNCHANGED last_reply
    /\ UNCHANGED <<global_params, user_contexts, http_request, update_intent, solo,
                   original_user, friend_search, pushed, pure_vars>>

(* One caller of communicate_with_friend, and the friends' agents *)

CoordinatorNext ==
    \/ \E name \in FriendNames, ctx \in Contexts : CommunicateWithFriend("u1", name, ctx)
    \/ PersonalityAnswered("u1")
    \/ PersonalityTimeout("u1")
    \/ PreferencesAnswered("u1", {<<"B01", "B02">>})
    \/ PreferencesTimeout("u1", {<<"B01", "B02">>})
    \/ \E q \in in_flight, text \in ReplyTexts : FriendReply(q, text)

SpecCoordinator == Init /\ [][CoordinatorNext]_vars

\* the step is a call of communicate_with_friend that had to be rejected: the
\* caller's handshake is idle and the step is not the arrival of a friend's
\* reply, which takes a question out of in_flight
Rejected ==
    /\ handshake["u1"].pc = "idle"
    /\ ~(in_flight' # in_flight /\ in_flight' \subseteq in_flight)
    /\ "call" \in DOMAIN last_input'
    /\ \/ lower(last_input'.friend_name) \notin DOMAIN agent_addresses
       \/ last_input'.ctx = NULL

\* C20: a call of communicate_with_friend with a friend name that is not in
\* the address table, or without an execution context, returns a rejection
\* text and takes no protocol step: no question is sent to an agent, the
\* cached replies are not cleared, no search is run, nothing is raised.
C20_RejectionWithoutProtocolStep ==
    [][Rejected =>
          /\ last_reply'.to = "u1"
          /\ last_reply'.kind \in {"unknown_friend", "no_context"}
          /\ in_flight' = in_flight
          /\ pending_responses' = pending_responses
          /\ friend_search' = friend_search
          /\ http_request' = http_request
          /\ handshake' = handshake]_vars

\* C20: a call without context was rejected while replies of the friend were
\* cached
C20_Witness ==
    /\ "call" \in DOMAIN last_input
    /\ last_input.ctx = NULL
    /\ last_reply = [to |-> "u1", kind |-> "no_context", arg |-> <<last_input.friend_name>>]
    /\ lower(last_input.friend_name) \in DOMAIN pending_responses
    /\ pending_responses[lower(last_input.friend_name)] # NoEntries

----------------------------------------------------------------------------
\* handle_message: the routing of a text by the address of its sender

\* friend_agent_addresses = list(friend_interface.agent_addresses.values())
friend_agent_addresses == {agent_addresses[f] : f \in DOMAIN agent_addresses}

\* a routing that takes every sender for a regular user
sender_is_user(sender) == FALSE

\* if sender in friend_agent_addresses
is_friend_agent(sender) == sender \in friend_agent_addresses

Senders == {"u1"} \cup {agent_addresses[f] : f \in Friends}

RoutingTexts == RegularTexts \cup {"a calm personality", "a gift for Devam"}

RoutingExtractions ==
    {Parsed(Extracted("birthday", NULL, NULL, NULL, NULL)),
     Parsed(Extracted(NULL, NULL, NULL, "100", "200"))}

\* a text of a friend agent that no question in flight is waiting for
Unsolicited(f) == Question(f, "none", 0, NULL)

\* the branch of a friend agent: the friend is found by its address
FriendAgentText(sender, text) ==
    \E f \in Friends :
        /\ agent_addresses[f] = sender
        /\ \/ \E q \in in_flight : q.friend = f /\ FriendReply(q, text)
           \/ /\ \A q \in in_flight : q.friend # f
              /\ FriendText(Unsolicited(f), text)
              /\ UNCHANGED in_flight

\* the branch of a regular user: process_user_input(sender, item.text, ctx)
UserText(sender, text) ==
    \/ /\ route(text) = "flow"
       /\ \/ FirstMessage(sender, RoutingExtractions, {ListFailed})
          \/ PreferencesMessage(sender, RoutingExtractions, {ListFailed})
    \/ /\ route(text) = "friend"
       /\ sender \in DOMAIN handshake
       /\ MentionFriend(sender, text)

handle_message(sender, text) ==
    IF is_friend_agent(sender) THEN FriendAgentText(sender, text)
    ELSE UserText(sender, text)

\* the texts are handled one after the other; the waits of the handshake
\* that a text begins are followed in SpecFriend and SpecWait
RoutingNext ==
    \E sender \in Senders, text \in RoutingTexts : handle_message(sender, text)

SpecRouting == Init /\ [][RoutingNext]_vars

\* nothing is written into the cache of the friends' responses
NothingCached ==
    \A f \in DOMAIN pending_responses' :
        f \in DOMAIN pending_responses /\ pending_responses'[f] = pending_responses[f]

\* the text reached process_user_input: its reply goes to the sender, or the
\* handshake with the friend it names has begun
Dispatched(sender) ==
    \/ last_reply'.to = sender
    \/ sender \in DOMAIN handshake /\ handshake'[sender].pc # "idle"

\* C21: the sender's address alone decides the routing of a text: a text of
\* a friend agent's address never reaches the conversation flow and leaves
\* every ConversationContext as it was, and a text of any other sender is
\* given to process_user_input and is never written into the cache of the
\* friends' responses
C21_RoutingBySender ==
    [][\A sender \in Senders, text \in RoutingTexts :
          \/ IF sender \in friend_agent_addresses
             THEN UNCHANGED <<user_contexts, global_params, last_input, update_intent, solo>>
             ELSE NothingCached /\ Dispatched(sender)
          \/ ~handle_message(sender, text)]_vars

\* a friend agent's text is cached while the user has a context
C21_Witness ==
    /\ "u1" \in DOMAIN user_contexts
    /\ "devam" \in DOMAIN pending_responses
    /\ "personality" \in DOMAIN pending_responses["devam"]

----------------------------------------------------------------------------
\* The lifetime of a user's context

\* the step handles a text of user u: its reply goes to u
Handled(u) == last_reply' # last_reply /\ last_reply'.to = u

\* C22: a user's context is created when the first text of that user is
\* handled, and every later text of the user is dispatched on the state of
\* that same context, which is never created anew, replaced or reset
C22_ContextPerUser ==
    [][\A u \in Users :
          Handled(u) =>
              /\ u \in DOMAIN user_contexts'
              /\ u \in DOMAIN user_contexts =>
                    user_contexts'[u] =
                        dispatch(user_contexts[u], global_params, last_input').ctx]_vars

----------------------------------------------------------------------------
\* The 'update preferences' intent

\* the step answers an 'update preferences' intent of user u
UpdateIntent(u) == Handled(u) /\ last_reply'.kind = "update_preferences"

\* the extraction results that carry another value for the non-null slot k
Different(k, gp) == {e \in ExtractedResults : e[k] # NULL /\ e[k] # gp[k]}

\* C23: an 'update preferences' intent moves the session to
\* COLLECTING_PREFERENCES and lifts the write-once protection of the slots:
\* the next extraction that carries another value for a slot that was
\* non-null before the intent gives the slot that value
C23_UpdateResetsProtection ==
    [][\A u \in Users :
          UpdateIntent(u) =>
              /\ user_contexts'[u].state = "COLLECTING_PREFERENCES"
              /\ \A k \in SlotNames :
                    global_params[k] # NULL =>
                        \A e \in Different(k, global_params) :
                            get_occasion_and_preferences(Parsed(e), global_params')
                                .global_params[k] = e[k]]_vars

----------------------------------------------------------------------------
\* payment_service.py: the payment requests and their processing

\* dict.get(key, default)
get(d, key, default) == IF key \in DOMAIN d THEN d[key] ELSE default

PaymentRequest(gift_id, gift_name, price, description, user_id, payment_id) ==
    [gift_id |-> gift_id, gift_name |-> gift_name, price |-> price,
     description |-> description, user_id |-> user_id, payment_id |-> payment_id]

\* _extract_price_value calls price_str.replace: a price that is no text raises
create_raises(gift_data) == get(gift_data, "price", "$0") = NULL

\* uuid is the value str(uuid.uuid4()) gives the new request as its payment_id
create_payment_link(requests, gift_data, user_id, uuid) ==
    LET payment_request ==
            PaymentRequest(get(gift_data, "id", "unknown"),
                           get(gift_data, "name", "Gift Item"),
                           get(gift_data, "price", "$0"),
                           get(gift_data, "description", EMPTY), user_id, uuid)
    IN  IF create_raises(gift_data)
        THEN [raised |-> TRUE, payment_requests |-> requests, url |-> NULL]
        ELSE [raised |-> FALSE,
              payment_requests |->
                  [id \in DOMAIN requests \cup {uuid} |->
                      IF id = uuid THEN payment_request ELSE requests[id]],
              url |-> "http://localhost:8001/payment/" \o uuid]

\* what self.payment_requests.get(payment_id) gives for an id without request
NoPaymentRequest == PaymentRequest(NULL, NULL, NULL, NULL, NULL, NULL)

get_payment_request(requests, payment_id) ==
    IF payment_id \in DOMAIN requests THEN requests[payment_id] ELSE NoPaymentRequest

\* a processing that takes the first stored request when the id is unknown
process_payment_of_any(requests, payment_id, uuid) ==
    LET payment_request ==
            IF payment_id \in DOMAIN requests THEN requests[payment_id]
            ELSE IF DOMAIN requests # {} THEN requests[CHOOSE id \in DOMAIN requests : TRUE]
            ELSE PaymentRequest(NULL, NULL, "$0", NULL, NULL, NULL)
    IN  [success |-> TRUE, payment_id |-> payment_id, transaction_id |-> "txn_" \o uuid,
         amount |-> payment_request.price, status |-> "completed",
         gift_name |-> payment_request.gift_name]

\* uuid is uuid.uuid4().hex[:8]; the timestamp of the result is left out
process_payment(requests, payment_id, uuid) ==
    IF get_payment_request(requests, payment_id) = NoPaymentRequest
    THEN [success |-> FALSE, error |-> "Payment request not found"]
    ELSE [success |-> TRUE, payment_id |-> payment_id, transaction_id |-> "txn_" \o uuid,
          amount |-> get_payment_request(requests, payment_id).price,
          status |-> "completed",
          gift_name |-> get_payment_request(requests, payment_id).gift_name]

PaymentIds == {"p1", "p2"}

UnknownPaymentIds == {"p9", EMPTY}

TransactionIds == {"0a1b2c3d", "4e5f6a7b"}

GiftData ==
    {[id |-> "B01", name |-> "Trail Map", price |-> "$24.99", description |-> "a map"],
     [id |-> "B02"],
     [id |-> "B03", name |-> "Tent", price |-> NULL]}

\* the request of test_payment_processing, under each payment id
DirectRequests ==
    {PaymentRequest("test_gift_001", "Test Gift Item", "$99.99",
                    "A test gift for demonstration", "test_user", id) : id \in PaymentIds}

flow_vars ==
    <<global_params, user_contexts, last_reply, http_request, last_input, update_intent, solo>>

search_vars == <<budget, parsed, api_key, search_preferences, searched, elapsed>>

\* uuid4 gives an id that no stored request has
CreatePaymentLink(gift_data, user_id, uuid) ==
    /\ uuid \notin DOMAIN payment_requests
    /\ payment_requests' =
          create_payment_link(payment_requests, gift_data, user_id, uuid).payment_requests
    /\ UNCHANGED <<processed, flow_vars, friend_vars, search_vars, lock_vars, chat_vars>>

\* payment_service.payment_requests[payment_request.payment_id] = payment_request
StoreDirectly(payment_request) ==
    /\ payment_requests' =
          [id \in DOMAIN payment_requests \cup {payment_request.payment_id} |->
              IF id = payment_request.payment_id THEN payment_request
              ELSE payment_requests[id]]
    /\ UNCHANGED <<processed, flow_vars, friend_vars, search_vars, lock_vars, chat_vars>>

ProcessPayment(payment_id, uuid) ==
    /\ processed' = [payment_id |-> payment_id,
                     result |-> process_payment(payment_requests, payment_id, uuid)]
    /\ UNCHANGED <<payment_requests, flow_vars, friend_vars, search_vars, lock_vars, chat_vars>>

PaymentNext ==
    \/ \E gift_data \in GiftData, uuid \in PaymentIds :
          CreatePaymentLink(gift_data, "u1", uuid)
    \/ \E payment_request \in DirectRequests : StoreDirectly(payment_request)
    \/ \E payment_id \in PaymentIds \cup UnknownPaymentIds, uuid \in TransactionIds :
          ProcessPayment(payment_id, uuid)

SpecPayment == Init /\ [][PaymentNext]_vars

\* C24: process_payment(id) succeeds with status 'completed', the stored
\* price as amount and the stored gift name exactly when a request is stored
\* under id; for every other id it fails with 'Payment request not found';
\* in both cases the stored requests stay as they are
C24_ProcessPayment ==
    [][processed' # processed =>
          /\ payment_requests' = payment_requests
          /\ IF processed'.payment_id \in DOMAIN payment_requests
             THEN /\ processed'.result.success
                  /\ processed'.result.status = "completed"
                  /\ processed'.result.amount =
                        payment_requests[processed'.payment_id].price
                  /\ processed'.result.gift_name =
                        payment_requests[processed'.payment_id].gift_name
             ELSE processed'.result =
                      [success |-> FALSE, error |-> "Payment request not found"]]_vars

\* a payment was processed for a link created with the default price while
\* a request stored directly is there too
C24_Witness ==
    /\ processed.result.success
    /\ processed.result.amount = "$0"
    /\ \E id \in DOMAIN payment_requests : payment_requests[id] \in DirectRequests

----------------------------------------------------------------------------
\* The list of categories of a session

\* C25: available_categories only grows: in every step, each category of a
\* session keeps its index
C25_CategoriesAppendOnly ==
    [][\A u \in DOMAIN user_contexts :
          \A i \in 1..Len(user_contexts[u].available_categories) :
              /\ i <= Len(user_contexts'[u].available_categories)
              /\ user_contexts'[u].available_categories[i] =
                    user_contexts[u].available_categories[i]]_vars

----------------------------------------------------------------------------
\* The recommendations of a session

\* C26: current_recommendations never holds more than 5 elements, whatever
\* the completion service answers when a batch is ranked
C26_RecommendationsAtMostFive ==
    \A u \in DOMAIN user_contexts : Len(user_contexts[u].current_recommendations) <= 5

----------------------------------------------------------------------------
\* global_memory.add_gifts_to_user applied to batches of gifts

MaxBatch == 2

GiftIds == {"B01", "B02", "B03", "B04"}

\* the batches: every list of at most MaxBatch gifts, a gift being its id
Batches == UNION {[1..n -> GiftIds] : n \in 0..MaxBatch}

\* a user without context is left alone
AddGiftsToUser(user_id, gifts) ==
    /\ user_contexts' =
          [u \in DOMAIN user_contexts |->
              IF u = user_id THEN add_gifts_to_user(user_contexts[u], gifts)
              ELSE user_contexts[u]]
    /\ UNCHANGED <<global_params, last_reply, http_request, last_input, update_intent,
                   solo, friend_vars, pure_vars>>

GiftsNext ==
    \/ FirstMessage("u1", {Parsed(Extracted("birthday", NULL, NULL, NULL, NULL))},
                    {ListFailed})
    \/ \E user_id \in Users, gifts \in Batches : AddGiftsToUser(user_id, gifts)

SpecGifts == Init /\ [][GiftsNext]_vars

\* C27: whatever batches add_gifts_to_user is given, also one that holds an
\* id twice, no two gifts of a user's all_gifts have the same id, and a batch
\* added a second time leaves all_gifts as it is
C27_NoDuplicateGift ==
    [][\A u \in DOMAIN user_contexts' :
          /\ \A i, j \in 1..Len(user_contexts'[u].all_gifts) :
                i # j => user_contexts'[u].all_gifts[i] # user_contexts'[u].all_gifts[j]
          /\ \A gifts \in Batches :
                (u \in DOMAIN user_contexts
                 /\ user_contexts'[u] = add_gifts_to_user(user_contexts[u], gifts))
                    => add_gifts_to_user(user_contexts'[u], gifts) = user_contexts'[u]]_vars

----------------------------------------------------------------------------
\* 'more options' in SHOWING_RECOMMENDATIONS

\* the gifts of the batch that a context shows
Shown(ctx) ==
    {ctx.current_recommendations[i].gift : i \in 1..Len(ctx.current_recommendations)}

\* the step shows user u another batch on a 'more options' request
NextBatch(u) ==
    /\ u \in DOMAIN user_contexts
    /\ user_contexts[u].state = "SHOWING_RECOMMENDATIONS"
    /\ Handled(u)
    /\ last_reply'.kind = "recommendations"

\* C28: a 'more options' request in SHOWING_RECOMMENDATIONS keeps the state
\* and moves on in all_gifts: the batch it shows holds only gifts that come
\* after the gifts shown before, so none of the batch shown just before
C28_MoreOptionsAdvances ==
    [][\A u \in Users :
          NextBatch(u) =>
              /\ user_contexts'[u].state = "SHOWING_RECOMMENDATIONS"
              /\ Shown(user_contexts'[u]) \cap Shown(user_contexts[u]) = {}]_vars

----------------------------------------------------------------------------
\* global_memory._lock and the handlers of one user's texts.  A handler is a
\* coroutine: while it awaits the completion service another handler runs
\* (the handshake relies on that: a friend's reply is stored by its handler
\* while the user's handler polls for it).

TheUser == "u1"

LockInputs ==
    CollectingInputs({Parsed(Extracted("birthday", NULL, NULL, NULL, NULL)),
                      Parsed(Extracted(NULL, "sister", "hiking", "100", "200"))},
                     {ListFailed})

At(h, at) == pc' = [pc EXCEPT ![h].at = at]

lock_rest == <<last_reply, http_request, last_input, update_intent, solo, friend_vars,
               search_vars, payment_vars, chat_vars>>

\* handle_message calls process_user_input for a text
Receive(h, in) ==
    /\ pc[h].at = "idle"
    /\ pc' = [pc EXCEPT ![h] = [at |-> "get", in |-> in]]
    /\ UNCHANGED <<global_params, user_contexts, lock, lock_rest>>

\* get_user_context: with self._lock
LockGet(h) ==
    /\ pc[h].at = "get"
    /\ lock = NULL
    /\ lock' = h
    /\ At(h, "got")
    /\ UNCHANGED <<global_params, user_contexts, lock_rest>>

\* get_user_context returns self._user_contexts.get(user_id) and the lock is
\* released; if not context: start_conversation
UnlockGet(h) ==
    /\ pc[h].at = "got"
    /\ lock' = NULL
    /\ At(h, IF TheUser \in DOMAIN user_contexts THEN "handle" ELSE "start")
    /\ UNCHANGED <<global_params, user_contexts, lock_rest>>

\* start_conversation: reset_global_parameters, then set_user_context takes
\* the lock
LockSet(h) ==
    /\ pc[h].at = "start"
    /\ lock = NULL
    /\ lock' = h
    /\ global_params' = start_conversation(global_params).global_params
    /\ At(h, "set")
    /\ UNCHANGED <<user_contexts, lock_rest>>

\* self._user_contexts[user_id] = context; the lock is released and
\* process_user_input is called again
UnlockSet(h) ==
    /\ pc[h].at = "set"
    /\ lock' = NULL
    /\ user_contexts' =
          [u \in DOMAIN user_contexts \cup {TheUser} |->
              IF u = TheUser THEN start_conversation(global_params).ctx
              ELSE user_contexts[u]]
    /\ At(h, "get")
    /\ UNCHANGED <<global_params, lock_rest>>

\* the handler of the context's state: it assigns the slots, the state and
\* the categories of the context it was given, and the reply is sent
Handle(h) ==
    /\ pc[h].at = "handle"
    /\ \E o \in {dispatch(user_contexts[TheUser], global_params, pc[h].in)} :
          /\ user_contexts' = [user_contexts EXCEPT ![TheUser] = o.ctx]
          /\ global_params' = o.global_params
          /\ last_reply' = Sent(TheUser, o)
          /\ http_request' = o.request
    /\ last_input' = pc[h].in
    /\ pc' = [pc EXCEPT ![h] = [at |-> "idle", in |-> NoInputs]]
    /\ UNCHANGED <<lock, update_intent, solo, friend_vars, search_vars, payment_vars, chat_vars>>

LockNext ==
    \/ \E h \in Handlers, in \in LockInputs : Receive(h, in)
    \/ \E h \in Handlers : LockGet(h)
    \/ \E h \in Handlers : UnlockGet(h)
    \/ \E h \in Handlers : LockSet(h)
    \/ \E h \in Handlers : UnlockSet(h)
    \/ \E h \in Handlers : Handle(h)

SpecLock == Init /\ [][LockNext]_vars

\* the context of the user is created or changed by the step
Updated ==
    \/ TheUser \notin DOMAIN user_contexts /\ TheUser \in DOMAIN user_contexts'
    \/ TheUser \in DOMAIN user_contexts /\ user_contexts'[TheUser] # user_contexts[TheUser]

\* C29: a handler reads and updates a user's context only while it holds
\* the lock of the context store, so that two handlers never stand between
\* their read and their update of the same context at the same time
C29_UpdatesUnderLock ==
    [][/\ \A h \in Handlers : (pc'[h] # pc[h] /\ Updated) => lock = h
       /\ ~(\A h \in Handlers : pc'[h].at = "handle")]_vars

----------------------------------------------------------------------------
\* The product search for a friend

\* the step ends the handshake of user u with the gift search, both replies
\* of the friend having arrived before their waits ran out
SearchedForFriend(u) ==
    /\ handshake[u].pc = "preferences"
    /\ handshake'[u] = Idle
    /\ handshake[u].personality_response # Timeout(handshake[u].round)
    /\ friend_search'.by = "communicate_with_friend"
    /\ friend_search'.query # Timeout(handshake[u].round)

\* C30: when the personality and the preferences reply of a friend have both
\* arrived in a round, the gift search sends a request to the product
\* search, with the friend's preferences text in its query
C30_FriendSearchIssued ==
    [][\A u \in Users :
          SearchedForFriend(u) =>
              /\ http_request'.issued
              /\ \E i \in 1..Len(http_request'.query) :
                    contains(friend_search'.query.text, http_request'.query[i])]_vars

----------------------------------------------------------------------------
\* The order of the steps of a handshake round

\* the questions the step sends
Asked_now == in_flight' \ in_flight

\* the wait for the personality reply of user u's round has ended with r
WaitEnded(u, r) ==
    \/ r = Timeout(handshake[u].round)
    \/ /\ TruthyText(r.text)
       /\ r = get_friend_response(pending_responses, handshake[u].friend, "personality")

\* C31: in a round the friend's cached responses are cleared first, then the
\* personality question is sent; the preferences question is sent only when
\* the wait for the personality reply has ended, and the gift search starts
\* only when the wait for the preferences reply has ended; each question is
\* sent once per round
C31_HandshakeOrder ==
    [][/\ \A q \in Asked_now :
             /\ q.kind \in {"personality", "gift_preferences"}
             /\ q.kind = "personality" =>
                   /\ rounds[q.friend] = q.round - 1 /\ rounds'[q.friend] = q.round
                   /\ entries_of(pending_responses', q.friend) = NoEntries
                   /\ handshake[q.user].pc = "idle"
                   /\ handshake'[q.user].pc = "personality"
                   /\ handshake'[q.user].round = q.round
             /\ q.kind = "gift_preferences" =>
                   /\ handshake[q.user].pc = "personality"
                   /\ handshake[q.user].round = q.round
                   /\ handshake[q.user].friend = q.friend
                   /\ handshake'[q.user].pc = "preferences"
                   /\ WaitEnded(q.user, handshake'[q.user].personality_response)
       /\ rounds' # rounds => \E q \in Asked_now : q.kind = "personality"
       /\ \A u \in Users :
             (handshake[u].pc = "personality" /\ handshake'[u].pc # "personality")
                => Question(handshake[u].friend, "gift_preferences", handshake[u].round, u)
                      \in Asked_now
       /\ (friend_search' # friend_search /\ friend_search'.by = "communicate_with_friend")
             => \E u \in Users :
                   /\ handshake[u].pc = "preferences"
                   /\ handshake[u].friend = friend_search'.friend
                   /\ handshake[u].round = friend_search'.round
                   /\ handshake'[u] = Idle]_vars

\* a second round with devam has run to its gift search after the replies
\* of the first round were cached
C31_Witness ==
    /\ friend_search.by = "communicate_with_friend"
    /\ friend_search.friend = "devam"
    /\ friend_search.round = 2
    /\ has_personality(pending_responses, "devam")

----------------------------------------------------------------------------
\* The 'unclear' intent

\* what process_user_selection handed to the handler of the step is 'unclear'
Unclear(sel) ==
    \E r \in {process_user_selection(sel)} : r.has_action /\ r.action = "unclear"

\* C32: when process_user_selection yields the action 'unclear', as it does
\* on every failure of the completion call or of the parsing, the handler of
\* SELECTING_CATEGORY or SHOWING_RECOMMENDATIONS answers with the re-prompt
\* that lists the valid actions, and the session (state, available_categories,
\* current_recommendations, selected_gift, preferences) and the shared slots
\* are as before.
C32_UnclearReprompt ==
    [][\A u \in DOMAIN user_contexts :
          (/\ user_contexts[u].state \in {"SELECTING_CATEGORY", "SHOWING_RECOMMENDATIONS"}
           /\ Handled(u)
           /\ Unclear(last_input'.sel))
          => /\ last_reply'.kind \in {"unclear", "choose_number"}
             /\ user_contexts'[u] = user_contexts[u]
             /\ global_params' = global_params]_vars

----------------------------------------------------------------------------
\* The category a selection sets

\* the step is one in which the category handler set preferences.category:
\* the three replies of _call_shopping_agent, which every selecting branch
\* ends in
CategorySet(u) ==
    /\ u \in DOMAIN user_contexts
    /\ user_contexts[u].state = "SELECTING_CATEGORY"
    /\ Handled(u)
    /\ selects(last_input'.sel)
    /\ last_reply'.kind \in {"products", "no_products", "missing_requirements"}

----------------------------------------------------------------------------
\* The selected gift

\* C33: in every reachable state of a session, selected_gift is set if and
\* only if the state is PAYMENT, and a selected gift is the gift of one of the
\* session's current_recommendations.
C33_SelectedGiftInPayment ==
    \A u \in DOMAIN user_contexts :
        /\ user_contexts[u].selected_gift # NULL <=> user_contexts[u].state = "PAYMENT"
        /\ user_contexts[u].selected_gift # NULL
              => user_contexts[u].selected_gift \in Shown(user_contexts[u])

\* C33: the third of at least three recommendations was selected
C33_Witness ==
    /\ "u1" \in DOMAIN user_contexts
    /\ user_contexts["u1"].state = "PAYMENT"
    /\ Len(user_contexts["u1"].current_recommendations) >= 3
    /\ user_contexts["u1"].selected_gift = user_contexts["u1"].current_recommendations[3].gift
    /\ LeadingDigit(last_input.sel) = 3
    /\ last_reply.kind = "payment"

----------------------------------------------------------------------------
\* The collecting handlers on every extraction result

\* C35: whatever slot record the extraction returns (every combination of
\* null and non-null occasion, recipient, preferences, budget_min and
\* budget_max), a message handled in INITIAL or COLLECTING_PREFERENCES is
\* answered with a reply text of the flow, nothing is raised, and the session
\* is in COLLECTING_PREFERENCES or SELECTING_CATEGORY afterwards.
C35_CollectingTotal ==
    [][\A u \in Users :
          (/\ Extracting(u)
           /\ ~get_occasion_and_preferences(last_input'.llm, StoreAtCall(u)).raised)
          => /\ last_reply'.kind \notin {"apology", "none", NULL}
             /\ StateOf(user_contexts', u) \in {"COLLECTING_PREFERENCES", "SELECTING_CATEGORY"}]_vars

----------------------------------------------------------------------------
\* The cache of a friend's replies

ResponseTypes == {"personality", "gift_preferences"}

\* the friend's cache entry of the type holds a reply
Cached(responses, f, t) == TruthyText(get_friend_response(responses, f, t).text)

\* C36: the inbound handler stores a friend's reply as personality only if
\* no personality is cached for that friend, and as preferences only if no
\* preferences are cached: a cached entry keeps its value in every step that
\* does not clear the friend's cache, and one step fills at most one of the
\* friend's two entries.
C36_CacheNotOverwritten ==
    [][\A f \in Friends :
          \/ entries_of(pending_responses', f) = NoEntries
          \/ /\ \A t \in ResponseTypes :
                    Cached(pending_responses, f, t) =>
                        get_friend_response(pending_responses', f, t)
                           = get_friend_response(pending_responses, f, t)
              /\ \E kept \in ResponseTypes :
                    get_friend_response(pending_responses', f, kept)
                       = get_friend_response(pending_responses, f, kept)]_vars

\* C36: Devam's agent answered 'a calm personality' twice: the first reply
\* is cached as personality, the second went to the empty preferences entry
C36_Witness ==
    /\ get_friend_response(pending_responses, "devam", "personality").text
          = "a calm personality"
    /\ get_friend_response(pending_responses, "devam", "gift_preferences").text
          = "a calm personality"

----------------------------------------------------------------------------
(* Gift-expert/agent.py: handle_message for a ChatMessage, item by item.   *)
(* chat.content holds the content items still to be processed, chat.sent   *)
(* what the handler has sent while handling the message.                   *)

ContentKinds == {"StartSessionContent", "TextContent", "EndSessionContent", "other"}

MaxItems == 1

\* the handshake rounds a run of the chat handler begins
MaxChatRounds == 1

\* msg.content: a list of one to MaxItems content items
Contents == UNION {[1..n -> ContentKinds] : n \in 1..MaxItems}

ChatSenders == {"u1", agent_addresses["devam"]}

ChatTexts == RegularTexts \cup ReplyTexts \cup {"a gift for Devam"}

Message(to, kind) == [to |-> to, kind |-> kind]

\* what the environment hands to process_user_input for a text of the
\* user: an extraction that is answered with a question, and one that raises
ChatInputs(user) ==
    CollectingInputs({Parsed(Extracted("birthday", NULL, NULL, NULL, NULL)),
                      Parsed(Extracted(NULL, NULL, NULL, "100", "200"))}, {ListFailed})

\* the item at the head of the list is processed
Processed(sent) == chat' = [chat EXCEPT !.content = Tail(@), !.sent = @ \cup sent]

\* handle_message up to its loop: the acknowledgement is sent unless the
\* sender is a friend agent
ReceiveChatMessage(sender, content) ==
    /\ chat.content = <<>>
    /\ chat' = [sender |-> sender, content |-> content,
                sent |-> IF sender \notin friend_agent_addresses
                         THEN {Message(sender, "acknowledgement")} ELSE {}]
    /\ UNCHANGED <<flow_vars, friend_vars, search_vars, payment_vars, lock_vars>>

\* isinstance(item, StartSessionContent): the welcome text is sent to sender
StartSession ==
    /\ chat.content # <<>>
    /\ Head(chat.content) = "StartSessionContent"
    /\ last_reply' = [to |-> chat.sender, kind |-> "welcome", arg |-> <<>>]
    /\ http_request' = NoRequest
    /\ last_input' = NoInputs
    /\ Processed({Message(chat.sender, "welcome")})
    /\ UNCHANGED <<global_params, user_contexts, update_intent, solo, friend_vars,
                   search_vars, payment_vars, lock_vars>>

\* isinstance(item, TextContent).  The friend branch stores the text, as
\* the answer to a question in flight if there is one, and sends a search
\* result to original_user.  The user branch sends the reply of
\* process_user_input, or the apology, to the sender; a text that names a
\* friend begins a handshake round, whose waits are steps of their own.
TextItem(text) ==
    /\ chat.content # <<>>
    /\ Head(chat.content) = "TextContent"
    /\ IF is_friend_agent(chat.sender)
       THEN /\ \E f \in Friends :
                  /\ agent_addresses[f] = chat.sender
                  /\ \/ \E q \in in_flight :
                           /\ q.friend = f
                           /\ in_flight' = in_flight \ {q}
                           /\ StoreFriendText(q, text)
                     \/ /\ \A q \in in_flight : q.friend # f
                        /\ StoreFriendText(Unsolicited(f), text)
                        /\ UNCHANGED in_flight
            /\ Processed(IF last_reply' # last_reply
                         THEN {Message(last_reply'.to, "text")} ELSE {})
       ELSE \/ /\ route(text) = "flow"
               /\ \E in \in ChatInputs(chat.sender) : AnswerUserText(chat.sender, in)
               /\ Processed({Message(chat.sender, "text")})
               /\ UNCHANGED friend_vars
            \/ /\ route(text) = "friend"
               /\ RoundsStarted < MaxChatRounds
               /\ BeginRound(chat.sender, text)
               /\ Processed({})
    /\ UNCHANGED <<search_vars, payment_vars, lock_vars>>

\* EndSessionContent and every other content item are logged
LoggedItem ==
    /\ chat.content # <<>>
    /\ Head(chat.content) \in {"EndSessionContent", "other"}
    /\ Processed({})
    /\ UNCHANGED <<flow_vars, friend_vars, search_vars, payment_vars, lock_vars>>

(* One user and one friend agent that send chat messages *)

ChatNext ==
    \/ \E sender \in ChatSenders, content \in Contents : ReceiveChatMessage(sender, content)
    \/ StartSession
    \/ \E text \in ChatTexts : TextItem(text)
    \/ LoggedItem
    \/ PersonalityAnswered("u1")
    \/ PersonalityTimeout("u1")
    \/ PreferencesAnswered("u1", {<<"B01", "B02">>})
    \/ PreferencesTimeout("u1", {<<"B01", "B02">>})

SpecChat == Init /\ [][ChatNext]_vars

\* C37: while a chat message of a friend agent is handled, whatever content
\* items it holds, no message (acknowledgement, welcome or text) is sent to
\* that friend agent's address.
C37_NothingSentToFriendAgent ==
    chat.sender \in friend_agent_addresses =>
        \A m \in chat.sent : m.to # chat.sender

----------------------------------------------------------------------------
\* The states a session reaches

ReachableStates ==
    {"INITIAL", "COLLECTING_PREFERENCES", "SELECTING_CATEGORY", "SHOWING_RECOMMENDATIONS",
     "PAYMENT"}

\* C38: no sequence of user messages brings a session into SELECTING_GIFT or
\* COMPLETED: the state of every session is INITIAL, COLLECTING_PREFERENCES,
\* SELECTING_CATEGORY, SHOWING_RECOMMENDATIONS or PAYMENT.
C38_NoSelectingGiftNoCompleted ==
    \A u \in DOMAIN user_contexts :
        /\ user_contexts[u].state \notin {"SELECTING_GIFT", "COMPLETED"}
        /\ user_contexts[u].state \in ReachableStates

\* C38: a session went all the way to PAYMENT by the selection of the first
\* recommendation
C38_Witness ==
    /\ "u1" \in DOMAIN user_contexts
    /\ user_contexts["u1"].state = "PAYMENT"
    /\ LeadingDigit(last_input.sel) = 1
    /\ last_reply = [to |-> "u1", kind |-> "payment",
                     arg |-> <<user_contexts["u1"].current_recommendations[1].gift>>]

====
